---- MODULE Spec2Model ----
(***************************************************************************)
(* Model of the stk tick pipeline:                                         *)
(*   - DQueue<T,N>, the fixed-capacity ring window                         *)
(*   - TechnicalAnalysis, the 3 s snapshot / 1 min bar resampler           *)
(*   - Parser::ReverseDifferentialEncoding, the delta codec                *)
(*   - Parser::ConvertToSnapshot3sAndBar1m, the Parser's bar builder       *)
(* Each component has its own specification over its own variables; the    *)
(* variables of the other components stay at their constructed values.     *)
(***************************************************************************)
EXTENDS Integers, Sequences, FiniteSets, TLC

VARIABLES
  data_,            \* DQueue::data_   (std::array<T,N>, indexed 0..N-1)
  start_,           \* DQueue::start_  physical index of the logical front
  size_,            \* DQueue::size_   number of valid elements
  pushed,           \* history: values given to push_back while only push_back was called
  only_push_back,   \* history: TRUE until a call other than push_back is made
  dq_calls,         \* number of mutating DQueue calls made so far
  reference         \* history: the reference bounded sequence given the same calls

dqVars == <<data_, start_, size_, pushed, only_push_back, dq_calls, reference>>

VARIABLES
  assertions,       \* whether assert() is compiled in: "enabled", "disabled" (NDEBUG),
                    \* "undetermined" until a call depends on it
  dq_pc             \* "running", "aborted" (an assert stopped the program),
                    \* "crashed", "precondition_broken" (a pop of the empty
                    \* window went through)

dqCallVars == <<assertions, dq_pc>>

VARIABLES
  has_previous_snapshot_,  \* TechnicalAnalysis members (technical_analysis.hpp)
  has_current_bar_,
  last_processed_time_,
  last_snapshot_,
  gap_snapshot_,
  current_bar_,
  continuous_snapshots_,
  minute_bars_,
  snapshot_bufs,           \* the CBuffers AnalyzeSnapshot pushes into, by name
  bar_bufs,                \* the CBuffers AnalyzeMinuteBar pushes into, by name
  snapshot,                \* ProcessSingleSnapshot: its argument
  gap_time,                \* ProcessSingleSnapshot: its local gap_time
  ta_pc,                   \* "idle", "gap_loop" (inside ProcessSingleSnapshot), "aborted"
  is_gap,                  \* history: per entry of continuous_snapshots_, TRUE when it
                           \* was emitted from gap_snapshot_
  ta_calls                 \* number of ProcessSingleSnapshot calls made so far

taVars == <<has_previous_snapshot_, has_current_bar_, last_processed_time_,
            last_snapshot_, gap_snapshot_, current_bar_, continuous_snapshots_,
            minute_bars_, snapshot_bufs, bar_bufs, snapshot, gap_time, ta_pc,
            is_gap, ta_calls>>

VARIABLES
  rd_original,   \* history: the block of absolute records before it was encoded
  rd_records,    \* std::vector<BinaryRecord> records, the block worked on
  rd_pc          \* "raw", "encoded", "reversed" (a raw block reversed),
                 \* "round_trip" (an encoded block reversed)

rdVars == <<rd_original, rd_records, rd_pc>>

VARIABLES
  bar_1m_buffer_,        \* Parser::bar_1m_buffer_
  snapshot_3s_buffer_,   \* Parser::snapshot_3s_buffer_
  year,                  \* ConvertToSnapshot3sAndBar1m: its arguments year, month
  month,
  current_minute_index,  \* ConvertToSnapshot3sAndBar1m: its locals
  last_minute,
  last_hour,
  block_pos,             \* records of binary_records the loop has been through
  ps_pc,                 \* "idle", "convert" (inside the loop), "aborted"
  ps_files,              \* number of ConvertToSnapshot3sAndBar1m calls so far
  ps_records,            \* number of records converted so far, all calls together
  ps_source              \* history: for each snapshot of snapshot_3s_buffer_, the
                         \* month argument and the day and time_s of its record

psVars == <<bar_1m_buffer_, snapshot_3s_buffer_, year, month,
            current_minute_index, last_minute, last_hour, block_pos, ps_pc,
            ps_files, ps_records, ps_source>>

VARIABLES
  binary_data,      \* ParseBinaryData: its argument, the decompressed bytes
  pb_records,       \* the vector ParseBinaryData returned, each record as its bytes
  pb_cerr,          \* what ParseBinaryData wrote to std::cerr
  pb_pc             \* "call", "returned"

pbVars == <<binary_data, pb_records, pb_cerr, pb_pc>>

VARIABLES
  dz_variant,       \* which DecompressFile is called: "with_record_count"
                    \* (filepath, record_count) or "from_filename" (filepath)
  dz_file,          \* the file at filepath: whether it opens, its size, and the
                    \* stream it holds
  dz_record_count,  \* record_count: the argument, or the count in the file name
  dz_return,        \* the vector DecompressFile returned
  dz_cerr,          \* what DecompressFile wrote to std::cerr, line by line
  dz_attempts,      \* history: the buffer sizes mz_uncompress was called with
  dz_outcome,       \* history: the return statement taken: "io_error",
                    \* "decompression_failed", "ok"
  dz_pc             \* "call", "returned"

dzVars == <<dz_variant, dz_file, dz_record_count, dz_return, dz_cerr,
            dz_attempts, dz_outcome, dz_pc>>

VARIABLES
  pa_entry,               \* the entry point running: "ParseAsset",
                          \* "ParseAssetLifespan" or "ParseSingleFile"
  month_files,            \* per month folder: what FindAssetFile finds there
  pa_month,               \* position of the loop in month_folders, from 1
  pa_pc,                  \* "find", "decompress", "parse", "reverse", "sink",
                          \* "done", "thrown"
  decompressed_data,      \* the local decompressed_data of the loop body
  pa_records,             \* the local records of the loop body
  asset_records_buffer_,  \* Parser::asset_records_buffer_
  text_records,           \* the records WriteRecordsToText was given
  pa_log,                 \* history: <<month, call>> of every call the loop made
  pa_sunk,                \* history: ConvertToSnapshot3sAndBar1m calls returned
  pa_tables_before,       \* history: the three tables when the month was entered
  csv_written             \* the tables as handed to the CSV writers after the loop

paVars == <<pa_entry, month_files, pa_month, pa_pc, decompressed_data,
            pa_records,
            asset_records_buffer_, text_records, pa_log, pa_sunk,
            pa_tables_before, csv_written>>

VARIABLES
  stock_info_map,        \* main: the assets, as the set of their positions 1..n
  output_creatable,      \* per asset: whether its output file can be created
  hardware_concurrency,  \* what std::thread::hardware_concurrency() reports
  num_threads,           \* main: num_threads
  stock_iter,            \* main: position of stock_iter, n + 1 at end()
  futures,               \* main: futures, each named by the asset of its task
  task,                  \* per asset: "not_launched", "running", "thrown" (an
                         \* exception is on its way to ProcessAsset's catch), "finished"
  outcome,               \* per asset: "none", "processed" (the months were gone
                         \* through), "failed" (ParseAssetLifespan threw before them)
  launches,              \* history: per asset, the std::async calls made for it
  drv_cerr,              \* the assets ProcessAsset reported an error for, in order
  wait_index,            \* the final loop: position in futures, from 1
  drv_pc                 \* main: "start", "loop", "erase_completed", "wait_front",
                         \* "launch", "final_wait", "completed"

drvVars == <<stock_info_map, output_creatable, hardware_concurrency, num_threads,
             stock_iter, futures, task, outcome, launches, drv_cerr, wait_index,
             drv_pc>>

VARIABLES
  gl_has_previous,    \* has_previous_snapshot_
  gl_last_time,       \* last_processed_time_
  gl_seconds_in_day,  \* snapshot.seconds_in_day of the call
  gl_gap_time,        \* the uint32_t local gap_time
  gl_passes,          \* history: passes of the gap loop made in the call
  gl_wrapped,         \* history: an addition to gap_time went past 2^32 - 1
  gl_pc               \* "idle", "loop" (at the loop test), "returned"

glVars == <<gl_has_previous, gl_last_time, gl_seconds_in_day, gl_gap_time,
            gl_passes, gl_wrapped, gl_pc>>

VARIABLES
  af_hardware,   \* what std::thread::hardware_concurrency() reports
  af_cores,      \* per calling thread: the argument cores of its call
  cpuset,        \* make_cpuset: its function-local static cpu_set_t, as a set of cores
  af_index,      \* per calling thread: elements of cores its loop has been through
  af_affinity,   \* per calling thread: the core set applied to its target thread,
                 \* {} while none was applied
  af_return,     \* per calling thread: what its call returned, "none" before
  af_pc          \* per calling thread: "validate", "CPU_ZERO", "CPU_SET",
                 \* "setaffinity", "returned"

afVars == <<af_hardware, af_cores, cpuset, af_index, af_affinity, af_return, af_pc>>

vars == <<dqVars, dqCallVars, taVars, rdVars, psVars, pbVars, dzVars, paVars, drvVars, glVars, afVars>>

\* what a step of one component leaves alone (for DQueue: a call made with its
\* precondition met)
notDQ == <<dqCallVars, taVars, rdVars, psVars, pbVars, dzVars, paVars, drvVars, glVars, afVars>>
notTA == <<dqVars, dqCallVars, rdVars, psVars, pbVars, dzVars, paVars, drvVars, glVars, afVars>>
notRD == <<dqVars, dqCallVars, taVars, psVars, pbVars, dzVars, paVars, drvVars, glVars, afVars>>
notPS == <<dqVars, dqCallVars, taVars, rdVars, pbVars, dzVars, paVars, drvVars, glVars, afVars>>
notPB == <<dqVars, dqCallVars, taVars, rdVars, psVars, dzVars, paVars, drvVars, glVars, afVars>>
notDZ == <<dqVars, dqCallVars, taVars, rdVars, psVars, pbVars, paVars, drvVars, glVars, afVars>>
notPA == <<dqVars, dqCallVars, taVars, rdVars, psVars, pbVars, dzVars, drvVars, glVars, afVars>>
\* what the end of ParseAsset leaves alone besides the Parser's own locals
notPAPS == <<dqVars, dqCallVars, taVars, rdVars, pbVars, dzVars, drvVars, glVars, afVars>>
notDRV == <<dqVars, dqCallVars, taVars, rdVars, psVars, pbVars, dzVars, paVars, glVars, afVars>>
notGL == <<dqVars, dqCallVars, taVars, rdVars, psVars, pbVars, dzVars, paVars, drvVars, afVars>>
notAF == <<dqVars, dqCallVars, taVars, rdVars, psVars, pbVars, dzVars, paVars, drvVars, glVars>>

----------------------------------------------------------------------------
(* Bounds of the model *)

\* DQueue<T,N>: the capacity the window is instantiated with
N == 3
\* values pushed are 1..MaxVal
MaxVal == 2
\* number of mutating DQueue calls explored
MaxDQCalls == 7

Values == 1..MaxVal

----------------------------------------------------------------------------
(* DQueue<T,N> *)

capacity_ == N

wrap_add(base, add) ==
  LET idx == base + add IN IF idx >= capacity_ THEN idx - capacity_ ELSE idx

wrap_inc_no_wrap(idx) == IF idx + 1 < capacity_ THEN idx + 1 ELSE idx

wrap_inc(idx) == IF idx + 1 < capacity_ THEN idx + 1 ELSE 0

wrap_dec_no_wrap(idx) == IF idx = 0 THEN 0 ELSE idx - 1

wrap_dec(idx) == IF idx = 0 THEN capacity_ - 1 ELSE idx - 1

\* the reference bounded sequence of capacity N: a push on a full sequence
\* removes the element at the other end, a pop removes the first or the last
RefPushBack(s, v) == IF Len(s) = N THEN Append(Tail(s), v) ELSE Append(s, v)
RefPushFront(s, v) ==
  IF Len(s) = N THEN <<v>> \o SubSeq(s, 1, N - 1) ELSE <<v>> \o s
RefPopFront(s) == Tail(s)
RefPopBack(s) == SubSeq(s, 1, Len(s) - 1)

\* what the history variables become on a call other than push_back
ForgetPushes ==
  /\ pushed' = << >>
  /\ only_push_back' = FALSE

push_back_always_grows(value) ==
  /\ dq_calls < MaxDQCalls
  /\ data_' = [data_ EXCEPT ![wrap_add(start_, size_ % capacity_)] = value]
  /\ size_' = size_ + 1
  /\ start_' = start_
  /\ pushed' = IF only_push_back THEN Append(pushed, value) ELSE pushed
  /\ reference' = RefPushBack(reference, value)
  /\ dq_calls' = dq_calls + 1
  /\ UNCHANGED notDQ
  /\ UNCHANGED only_push_back

push_back(value) ==
  /\ dq_calls < MaxDQCalls
  /\ IF size_ < capacity_
       THEN /\ data_' = [data_ EXCEPT ![wrap_add(start_, size_)] = value]
            /\ size_' = size_ + 1
            /\ start_' = start_
       ELSE /\ data_' = [data_ EXCEPT ![start_] = value]
            /\ start_' = wrap_inc(start_)
            /\ size_' = size_
  /\ pushed' = IF only_push_back THEN Append(pushed, value) ELSE pushed
  /\ reference' = RefPushBack(reference, value)
  /\ dq_calls' = dq_calls + 1
  /\ UNCHANGED notDQ
  /\ UNCHANGED only_push_back

\* push_front that, on a full window, writes over the front element
push_front_overwrites_front(value) ==
  /\ dq_calls < MaxDQCalls
  /\ start_' = IF size_ < capacity_ THEN wrap_dec(start_) ELSE start_
  /\ data_' = [data_ EXCEPT ![start_'] = value]
  /\ size_' = IF size_ < capacity_ THEN size_ + 1 ELSE size_
  /\ reference' = RefPushFront(reference, value)
  /\ dq_calls' = dq_calls + 1
  /\ UNCHANGED notDQ
  /\ ForgetPushes

push_front(value) ==
  /\ dq_calls < MaxDQCalls
  /\ start_' = wrap_dec(start_)
  /\ data_' = [data_ EXCEPT ![wrap_dec(start_)] = value]
  /\ size_' = IF size_ < capacity_ THEN size_ + 1 ELSE size_
  /\ reference' = RefPushFront(reference, value)
  /\ dq_calls' = dq_calls + 1
  /\ UNCHANGED notDQ
  /\ ForgetPushes

\* pop_front / pop_back are called with their precondition size_ > 0 met
pop_front ==
  /\ dq_calls < MaxDQCalls
  /\ size_ > 0
  /\ start_' = wrap_inc(start_)
  /\ size_' = size_ - 1
  /\ reference' = RefPopFront(reference)
  /\ dq_calls' = dq_calls + 1
  /\ UNCHANGED notDQ
  /\ ForgetPushes
  /\ UNCHANGED data_

pop_back ==
  /\ dq_calls < MaxDQCalls
  /\ size_ > 0
  /\ size_' = size_ - 1
  /\ reference' = RefPopBack(reference)
  /\ dq_calls' = dq_calls + 1
  /\ UNCHANGED notDQ
  /\ ForgetPushes
  /\ UNCHANGED <<data_, start_>>

size == size_

full == size_ = capacity_

\* the element front() and back() return (called with size_ > 0)
front == data_[start_]
back == data_[wrap_add(start_, size_ - 1)]

\* std::span<const T>(data_.data() + first, count), as the sequence it views
SpanOf(first, count) == [i \in 1..count |-> data_[first + i - 1]]

\* subspan with the second segment given the first segment's length
subspan_tail_as_long_as_head(logical_start, length) ==
  IF length = 0
    THEN [head |-> << >>, tail |-> << >>]
    ELSE LET physical_start == wrap_add(start_, logical_start)
             contig_size == capacity_ - physical_start
         IN  IF length <= contig_size
               THEN [head |-> SpanOf(physical_start, length), tail |-> << >>]
               ELSE [head |-> SpanOf(physical_start, contig_size),
                     tail |-> SpanOf(0, contig_size)]

subspan(logical_start, length) ==
  IF length = 0
    THEN [head |-> << >>, tail |-> << >>]
    ELSE LET physical_start == wrap_add(start_, logical_start)
             contig_size == capacity_ - physical_start
         IN  IF length <= contig_size
               THEN [head |-> SpanOf(physical_start, length), tail |-> << >>]
               ELSE [head |-> SpanOf(physical_start, contig_size),
                     tail |-> SpanOf(0, length - contig_size)]

span == subspan(0, size_)

last(count) == subspan(size_ - count, count)

DQInit ==
  /\ data_ = [i \in 0..(N - 1) |-> 0]
  /\ start_ = 0
  /\ size_ = 0
  /\ pushed = << >>
  /\ only_push_back = TRUE
  /\ dq_calls = 0
  /\ reference = << >>
  /\ assertions = "undetermined"
  /\ dq_pc = "running"

DQNext ==
  \/ \E value \in Values : push_back(value)
  \/ \E value \in Values : push_front(value)
  \/ pop_front
  \/ pop_back

\* size_t's largest value, 2^64 - 1, is beyond the integers of the model
\* checker; the largest integer it holds stands for it
SIZE_MAX == 2147483647

\* the builds a call that depends on assert() can find itself in
BuildChoices ==
  IF assertions = "undetermined" THEN {"enabled", "disabled"} ELSE {assertions}

\* pop_front() that decrements before it asserts
pop_front_on_empty_asserts_late ==
  /\ dq_pc = "running"
  /\ dq_calls < MaxDQCalls
  /\ size_ = 0
  /\ \E build \in BuildChoices :
       /\ assertions' = build
       /\ dq_pc' = IF build = "enabled" THEN "aborted" ELSE "precondition_broken"
  /\ start_' = wrap_inc(start_)
  /\ size_' = SIZE_MAX
  /\ dq_calls' = dq_calls + 1
  /\ UNCHANGED <<data_, pushed, only_push_back, reference>>
  /\ UNCHANGED <<taVars, rdVars, psVars, pbVars, dzVars, paVars, drvVars, glVars,
                 afVars>>

\* pop_front() on the empty window: assert(size_ > 0) stops the program, or
\* with NDEBUG start_ = wrap_inc(start_) and --size_ wraps
pop_front_on_empty ==
  /\ dq_pc = "running"
  /\ dq_calls < MaxDQCalls
  /\ size_ = 0
  /\ \E build \in BuildChoices :
       /\ assertions' = build
       /\ IF build = "enabled"
            THEN /\ dq_pc' = "aborted"
                 /\ UNCHANGED <<start_, size_>>
            ELSE /\ dq_pc' = "precondition_broken"
                 /\ start_' = wrap_inc(start_)
                 /\ size_' = SIZE_MAX
  /\ dq_calls' = dq_calls + 1
  /\ UNCHANGED <<data_, pushed, only_push_back, reference>>
  /\ UNCHANGED <<taVars, rdVars, psVars, pbVars, dzVars, paVars, drvVars, glVars,
                 afVars>>

\* pop_back() on the empty window: the assert, or with NDEBUG --size_ wraps
pop_back_on_empty ==
  /\ dq_pc = "running"
  /\ dq_calls < MaxDQCalls
  /\ size_ = 0
  /\ \E build \in BuildChoices :
       /\ assertions' = build
       /\ IF build = "enabled"
            THEN /\ dq_pc' = "aborted"
                 /\ UNCHANGED size_
            ELSE /\ dq_pc' = "precondition_broken"
                 /\ size_' = SIZE_MAX
  /\ dq_calls' = dq_calls + 1
  /\ UNCHANGED <<data_, start_, pushed, only_push_back, reference>>
  /\ UNCHANGED <<taVars, rdVars, psVars, pbVars, dzVars, paVars, drvVars, glVars,
                 afVars>>

\* front() on the empty window: the assert, or with NDEBUG the stale element
\* data_[start_] is returned
front_on_empty ==
  /\ dq_pc = "running"
  /\ dq_calls < MaxDQCalls
  /\ size_ = 0
  /\ \E build \in BuildChoices :
       /\ assertions' = build
       /\ dq_pc' = IF build = "enabled" THEN "aborted" ELSE "running"
  /\ dq_calls' = dq_calls + 1
  /\ UNCHANGED <<data_, start_, size_, pushed, only_push_back, reference>>
  /\ UNCHANGED <<taVars, rdVars, psVars, pbVars, dzVars, paVars, drvVars, glVars,
                 afVars>>

\* back() on the empty window: the assert, or with NDEBUG size_ - 1 wraps and
\* wrap_add(start_, SIZE_MAX) is start_ - 1 when start_ > 0 (a stale element is
\* returned) and lies far outside data_ when start_ = 0 (the read returns
\* anything or stops the program)
back_on_empty ==
  /\ dq_pc = "running"
  /\ dq_calls < MaxDQCalls
  /\ size_ = 0
  /\ \E build \in BuildChoices :
       /\ assertions' = build
       /\ IF build = "enabled"
            THEN dq_pc' = "aborted"
            ELSE IF start_ = 0
                   THEN dq_pc' \in {"running", "crashed"}
                   ELSE dq_pc' = "running"
  /\ dq_calls' = dq_calls + 1
  /\ UNCHANGED <<data_, start_, size_, pushed, only_push_back, reference>>
  /\ UNCHANGED <<taVars, rdVars, psVars, pbVars, dzVars, paVars, drvVars, glVars,
                 afVars>>

\* calls of any kind, with or without their precondition met, while the
\* program runs
DQCallsNext ==
  \/ dq_pc = "running" /\ DQNext
  \/ pop_front_on_empty
  \/ pop_back_on_empty
  \/ front_on_empty
  \/ back_on_empty

----------------------------------------------------------------------------
(* TechnicalAnalysis: the resampler and its feature windows.               *)
(* float members hold integers here: prices in hundredths, volumes and     *)
(* turnovers as counted; a float quotient is kept as the fraction it is.   *)

\* Dtype.hpp
BLen == 100
snapshot_interval == 3

\* width of the uint8_t fields; the uint32_t values (seconds_in_day, gap_time,
\* turnover) stay far below 2^32 here and are kept as they are
UInt8 == 256

\* number of ProcessSingleSnapshot calls explored
MaxCalls == 3
\* a call is explored when its gap needs at most MaxGapFill synthetic snapshots
\* (44 fill the gap from 00:00:57 to 00:03:10, which skips two whole minutes)
MaxGapFill == 44

Frac(n, d) == [num |-> n, den |-> d]

\* Table::Snapshot_Record price / volume / depth fields as they arrive
Quotes ==
  { [latest_price_tick |-> 1000, trade_count |-> 0, volume |-> 0, turnover |-> 0,
     bid_price_ticks |-> <<999, 998, 997, 996, 995>>,
     bid_volumes |-> <<5, 4, 3, 2, 1>>,
     ask_price_ticks |-> <<1001, 1002, 1003, 1004, 1005>>,
     ask_volumes |-> <<1, 2, 3, 4, 5>>, direction |-> 0],
    [latest_price_tick |-> 1050, trade_count |-> 3, volume |-> 2, turnover |-> 2100,
     bid_price_ticks |-> <<1049, 1048, 1047, 1046, 1045>>,
     bid_volumes |-> <<7, 7, 7, 7, 7>>,
     ask_price_ticks |-> <<1051, 1052, 1053, 1054, 1055>>,
     ask_volumes |-> <<9, 9, 9, 9, 9>>, direction |-> 1],
    [latest_price_tick |-> 980, trade_count |-> 1, volume |-> 3, turnover |-> 2940,
     bid_price_ticks |-> <<979, 978, 977, 976, 975>>,
     bid_volumes |-> <<2, 2, 2, 2, 2>>,
     ask_price_ticks |-> <<982, 983, 984, 985, 986>>,
     ask_volumes |-> <<4, 4, 4, 4, 4>>, direction |-> 2] }

\* (day, seconds_in_day) of the records that arrive: 00:00:57, 00:01:00,
\* 00:01:06, 00:01:10 and 01:00:57 on day 1, 00:00:57 and 00:01:06 on day 2
Stamps ==
  { <<1, 57>>, <<1, 60>>, <<1, 66>>, <<1, 70>>, <<1, 3657>>, <<2, 57>>, <<2, 66>> }

\* a Table::Snapshot_Record whose hour, minute and second are those of its
\* seconds_in_day
MakeSnapshot(stamp, q) ==
  [year |-> 2024, month |-> 1, day |-> stamp[1],
   hour |-> stamp[2] \div 3600,
   minute |-> (stamp[2] % 3600) \div 60,
   second |-> stamp[2] % 60,
   seconds_in_day |-> stamp[2],
   latest_price_tick |-> q.latest_price_tick,
   trade_count |-> q.trade_count,
   volume |-> q.volume,
   turnover |-> q.turnover,
   bid_price_ticks |-> q.bid_price_ticks,
   bid_volumes |-> q.bid_volumes,
   ask_price_ticks |-> q.ask_price_ticks,
   ask_volumes |-> q.ask_volumes,
   direction |-> q.direction,
   ofi_ask |-> <<0, 0, 0, 0, 0>>,
   ofi_bid |-> <<0, 0, 0, 0, 0>>]

Snapshots == { MakeSnapshot(stamp, q) : stamp \in Stamps, q \in Quotes }

\* (day, seconds_in_day) of records with whole minutes between them: 00:00:57
\* and 00:03:10, 00:59:57 and 01:01:10
GapStamps == { <<1, 57>>, <<1, 190>>, <<1, 3597>>, <<1, 3670>> }

GapSnapshots == { MakeSnapshot(stamp, q) : stamp \in GapStamps, q \in Quotes }

\* a record member before its first assignment (never read in that state)
NoSnapshot ==
  [year |-> 0, month |-> 0, day |-> 0, hour |-> 0, minute |-> 0, second |-> 0,
   seconds_in_day |-> 0, latest_price_tick |-> 0, trade_count |-> 0,
   volume |-> 0, turnover |-> 0,
   bid_price_ticks |-> <<0, 0, 0, 0, 0>>, bid_volumes |-> <<0, 0, 0, 0, 0>>,
   ask_price_ticks |-> <<0, 0, 0, 0, 0>>, ask_volumes |-> <<0, 0, 0, 0, 0>>,
   direction |-> 0, ofi_ask |-> <<0, 0, 0, 0, 0>>, ofi_bid |-> <<0, 0, 0, 0, 0>>]

NoBar ==
  [year |-> 0, month |-> 0, day |-> 0, hour |-> 0, minute |-> 0,
   open |-> 0, high |-> 0, low |-> 0, close |-> 0, volume |-> 0, turnover |-> 0]

\* CBuffer<T, BLen>, by its logical content front to back
CBufferPush(buf, v) ==
  IF Len(buf) < BLen THEN Append(buf, v) ELSE Append(Tail(buf), v)

\* snapshot_vwaps_.back() is read on an empty window when the very first
\* snapshot has volume 0: the assertion stops the program, or (assertions
\* compiled out) the read yields whatever lies before the array
ReadsEmptyVwaps(snap) ==
  /\ ~(snap.volume > 0)
  /\ Len(snapshot_bufs.snapshot_vwaps_) = 0

EmptyBackOutcomes ==
  { [abort |-> TRUE, value |-> Frac(0, 1)],
    [abort |-> FALSE, value |-> Frac(0, 1)],
    [abort |-> FALSE, value |-> Frac(-7, 1)] }

\* AnalyzeSnapshot with the guard of AnalyzeMinuteBar: 0 when volume is 0
AnalyzeSnapshot_zero_guard(snap, ub) ==
  LET bid_price == snap.bid_price_ticks[1]
      ask_price == snap.ask_price_ticks[1]
      \* bid_price + ask_price * 0.5f, kept doubled
      mid_price_x2 == 2 * bid_price + ask_price
      spread == ask_price - bid_price
      volume_f == snap.volume
      volume_scaled == volume_f * 100
      turnover_f == snap.turnover
      vwap == IF volume_f > 0
                THEN Frac(turnover_f, volume_scaled)
                ELSE Frac(0, 1)
  IN  snapshot_bufs' =
        [snapshot_timestamps_ |-> CBufferPush(snapshot_bufs.snapshot_timestamps_, snap.seconds_in_day),
         snapshot_prices_ |-> CBufferPush(snapshot_bufs.snapshot_prices_, snap.latest_price_tick),
         snapshot_volumes_ |-> CBufferPush(snapshot_bufs.snapshot_volumes_, volume_scaled),
         snapshot_turnovers_ |-> CBufferPush(snapshot_bufs.snapshot_turnovers_, turnover_f),
         snapshot_vwaps_ |-> CBufferPush(snapshot_bufs.snapshot_vwaps_, vwap),
         snapshot_directions_ |-> CBufferPush(snapshot_bufs.snapshot_directions_, snap.direction),
         snapshot_spreads_ |-> CBufferPush(snapshot_bufs.snapshot_spreads_, spread),
         snapshot_mid_prices_ |-> CBufferPush(snapshot_bufs.snapshot_mid_prices_, mid_price_x2)]

AnalyzeSnapshot(snap, ub) ==
  LET bid_price == snap.bid_price_ticks[1]
      ask_price == snap.ask_price_ticks[1]
      \* bid_price + ask_price * 0.5f, kept doubled
      mid_price_x2 == 2 * bid_price + ask_price
      spread == ask_price - bid_price
      volume_f == snap.volume
      volume_scaled == volume_f * 100
      turnover_f == snap.turnover
      vwap == IF volume_f > 0
                THEN Frac(turnover_f, volume_scaled)
                ELSE IF Len(snapshot_bufs.snapshot_vwaps_) = 0
                       THEN ub.value
                       ELSE snapshot_bufs.snapshot_vwaps_[Len(snapshot_bufs.snapshot_vwaps_)]
  IN  snapshot_bufs' =
        [snapshot_timestamps_ |-> CBufferPush(snapshot_bufs.snapshot_timestamps_, snap.seconds_in_day),
         snapshot_prices_ |-> CBufferPush(snapshot_bufs.snapshot_prices_, snap.latest_price_tick),
         snapshot_volumes_ |-> CBufferPush(snapshot_bufs.snapshot_volumes_, volume_scaled),
         snapshot_turnovers_ |-> CBufferPush(snapshot_bufs.snapshot_turnovers_, turnover_f),
         snapshot_vwaps_ |-> CBufferPush(snapshot_bufs.snapshot_vwaps_, vwap),
         snapshot_directions_ |-> CBufferPush(snapshot_bufs.snapshot_directions_, snap.direction),
         snapshot_spreads_ |-> CBufferPush(snapshot_bufs.snapshot_spreads_, spread),
         snapshot_mid_prices_ |-> CBufferPush(snapshot_bufs.snapshot_mid_prices_, mid_price_x2)]

\* AnalyzeMinuteBar with the guard of AnalyzeSnapshot: the previous VWAP when
\* volume is 0
AnalyzeMinuteBar_previous_vwap(bar) ==
  LET \* bar.volume > PRICE_EPSILON: volumes are whole numbers
      vwap == IF bar.volume > 0
                THEN Frac(bar.turnover, bar.volume)
                ELSE IF Len(bar_bufs.bar_vwaps_) = 0
                       THEN Frac(0, 1)
                       ELSE bar_bufs.bar_vwaps_[Len(bar_bufs.bar_vwaps_)]
      timestamp == bar.hour * 60 + bar.minute
  IN  bar_bufs' =
        [bar_timestamps_ |-> CBufferPush(bar_bufs.bar_timestamps_, timestamp),
         bar_opens_ |-> CBufferPush(bar_bufs.bar_opens_, bar.open),
         bar_highs_ |-> CBufferPush(bar_bufs.bar_highs_, bar.high),
         bar_lows_ |-> CBufferPush(bar_bufs.bar_lows_, bar.low),
         bar_closes_ |-> CBufferPush(bar_bufs.bar_closes_, bar.close),
         bar_volumes_ |-> CBufferPush(bar_bufs.bar_volumes_, bar.volume),
         bar_turnovers_ |-> CBufferPush(bar_bufs.bar_turnovers_, bar.turnover),
         bar_vwaps_ |-> CBufferPush(bar_bufs.bar_vwaps_, vwap)]

AnalyzeMinuteBar(bar) ==
  LET \* bar.volume > PRICE_EPSILON: volumes are whole numbers
      vwap == IF bar.volume > 0 THEN Frac(bar.turnover, bar.volume) ELSE Frac(0, 1)
      timestamp == bar.hour * 60 + bar.minute
  IN  bar_bufs' =
        [bar_timestamps_ |-> CBufferPush(bar_bufs.bar_timestamps_, timestamp),
         bar_opens_ |-> CBufferPush(bar_bufs.bar_opens_, bar.open),
         bar_highs_ |-> CBufferPush(bar_bufs.bar_highs_, bar.high),
         bar_lows_ |-> CBufferPush(bar_bufs.bar_lows_, bar.low),
         bar_closes_ |-> CBufferPush(bar_bufs.bar_closes_, bar.close),
         bar_volumes_ |-> CBufferPush(bar_bufs.bar_volumes_, bar.volume),
         bar_turnovers_ |-> CBufferPush(bar_bufs.bar_turnovers_, bar.turnover),
         bar_vwaps_ |-> CBufferPush(bar_bufs.bar_vwaps_, vwap)]

IsNewMinuteBar_minute_only(snap) ==
  IF ~has_current_bar_
    THEN TRUE
    ELSE snap.minute # current_bar_.minute

IsNewMinuteBar(snap) ==
  IF ~has_current_bar_
    THEN TRUE
    ELSE snap.hour # current_bar_.hour \/ snap.minute # current_bar_.minute

\* FinalizeCurrentBar that writes the bar over the newest entry of the table
FinalizeCurrentBar_replaces_last ==
  /\ minute_bars_' =
       IF Len(minute_bars_) = 0
         THEN <<current_bar_>>
         ELSE [minute_bars_ EXCEPT ![Len(minute_bars_)] = current_bar_]
  /\ AnalyzeMinuteBar(current_bar_)

FinalizeCurrentBar ==
  /\ minute_bars_' = Append(minute_bars_, current_bar_)
  /\ AnalyzeMinuteBar(current_bar_)

\* StartNewBar taking the snapshot's volume as it is, without the factor 100
StartedBar_volume_in_lots(snap) ==
  [year |-> snap.year, month |-> snap.month, day |-> snap.day,
   hour |-> snap.hour, minute |-> snap.minute,
   open |-> snap.latest_price_tick, high |-> snap.latest_price_tick,
   low |-> snap.latest_price_tick, close |-> snap.latest_price_tick,
   volume |-> snap.volume, turnover |-> snap.turnover]

\* the bar StartNewBar leaves in current_bar_
StartedBar(snap) ==
  [year |-> snap.year, month |-> snap.month, day |-> snap.day,
   hour |-> snap.hour, minute |-> snap.minute,
   open |-> snap.latest_price_tick, high |-> snap.latest_price_tick,
   low |-> snap.latest_price_tick, close |-> snap.latest_price_tick,
   volume |-> snap.volume * 100, turnover |-> snap.turnover]

\* StartNewBar without "has_current_bar_ = true"
StartNewBar_flag_not_set(snap) ==
  /\ current_bar_' = StartedBar(snap)
  /\ UNCHANGED has_current_bar_

StartNewBar(snap) ==
  /\ current_bar_' = StartedBar(snap)
  /\ has_current_bar_' = TRUE

UpdatedBar_close_not_set(bar, snap) ==
  LET current_price == snap.latest_price_tick
  IN  [bar EXCEPT
         !.high = IF current_price > bar.high THEN current_price ELSE bar.high,
         !.low = IF current_price < bar.low THEN current_price ELSE bar.low,
         !.volume = bar.volume + snap.volume * 100,
         !.turnover = bar.turnover + snap.turnover]

\* the bar UpdateCurrentBar leaves in current_bar_ when a bar is open
UpdatedBar(bar, snap) ==
  LET current_price == snap.latest_price_tick
      volume_scaled == snap.volume * 100
      turnover_f == snap.turnover
  IN  [bar EXCEPT
         !.high = IF current_price > bar.high THEN current_price ELSE bar.high,
         !.low = IF current_price < bar.low THEN current_price ELSE bar.low,
         !.close = current_price,
         !.volume = bar.volume + volume_scaled,
         !.turnover = bar.turnover + turnover_f]

UpdateCurrentBar(snap) ==
  IF ~has_current_bar_
    THEN StartNewBar(snap)
    ELSE /\ current_bar_' = UpdatedBar(current_bar_, snap)
         /\ UNCHANGED has_current_bar_

GetGapSnapshot_keeps_trade_count(timestamp) ==
  [last_snapshot_ EXCEPT
     !.seconds_in_day = timestamp,
     !.hour = (timestamp \div 3600) % UInt8,
     !.minute = ((timestamp % 3600) \div 60) % UInt8,
     !.second = (timestamp % 60) % UInt8,
     !.volume = 0,
     !.turnover = 0]

\* GetGapSnapshot without the assignment to seconds_in_day
GetGapSnapshot_keeps_time(timestamp) ==
  [last_snapshot_ EXCEPT
     !.hour = (timestamp \div 3600) % UInt8,
     !.minute = ((timestamp % 3600) \div 60) % UInt8,
     !.second = (timestamp % 60) % UInt8,
     !.trade_count = 0,
     !.volume = 0,
     !.turnover = 0]

\* GetGapSnapshot without the assignments to hour and minute
GetGapSnapshot_keeps_minute(timestamp) ==
  [last_snapshot_ EXCEPT
     !.seconds_in_day = timestamp,
     !.second = (timestamp % 60) % UInt8,
     !.trade_count = 0,
     !.volume = 0,
     !.turnover = 0]

\* the value GetGapSnapshot leaves in gap_snapshot_
GetGapSnapshot(timestamp) ==
  [last_snapshot_ EXCEPT
     !.seconds_in_day = timestamp,
     !.hour = (timestamp \div 3600) % UInt8,
     !.minute = ((timestamp % 3600) \div 60) % UInt8,
     !.second = (timestamp % 60) % UInt8,
     !.trade_count = 0,
     !.volume = 0,
     !.turnover = 0]

\* ProcessSnapshotInternal(snap); synthetic tells the history where snap came
\* from, ub is the outcome of a read of the empty snapshot_vwaps_
ProcessSnapshotInternal(snap, synthetic, ub) ==
  /\ continuous_snapshots_' = Append(continuous_snapshots_, snap)
  /\ is_gap' = Append(is_gap, synthetic)
  /\ IF ReadsEmptyVwaps(snap) /\ ub.abort
       THEN UNCHANGED <<snapshot_bufs, bar_bufs, minute_bars_, current_bar_,
                        has_current_bar_>>
       ELSE /\ AnalyzeSnapshot(snap, ub)
            /\ IF IsNewMinuteBar(snap)
                 THEN /\ IF has_current_bar_
                           THEN FinalizeCurrentBar
                           ELSE UNCHANGED <<minute_bars_, bar_bufs>>
                      /\ StartNewBar(snap)
                 ELSE /\ UpdateCurrentBar(snap)
                      /\ UNCHANGED <<minute_bars_, bar_bufs>>

Aborts(snap, ub) == ReadsEmptyVwaps(snap) /\ ub.abort

\* number of passes the gap loop makes for a record arriving at time t
GapCount(t) ==
  IF has_previous_snapshot_ /\ t > last_processed_time_ + snapshot_interval
    THEN (t - last_processed_time_ - 1) \div snapshot_interval
    ELSE 0

\* ProcessSingleSnapshot is entered: gap_time is set when there is a previous
\* snapshot
ProcessSingleSnapshot(s) ==
  /\ ta_pc = "idle"
  /\ ta_calls < MaxCalls
  /\ GapCount(s.seconds_in_day) <= MaxGapFill
  /\ snapshot' = s
  /\ gap_time' = IF has_previous_snapshot_
                   THEN last_processed_time_ + snapshot_interval
                   ELSE gap_time
  /\ ta_pc' = "gap_loop"
  /\ ta_calls' = ta_calls + 1
  /\ UNCHANGED <<has_previous_snapshot_, has_current_bar_, last_processed_time_,
                 last_snapshot_, gap_snapshot_, current_bar_,
                 continuous_snapshots_, minute_bars_, snapshot_bufs, bar_bufs,
                 is_gap>>
  /\ UNCHANGED notTA

GapLoopRuns_inclusive ==
  has_previous_snapshot_ /\ gap_time <= snapshot.seconds_in_day

GapLoopRuns_until_equal ==
  has_previous_snapshot_ /\ gap_time # snapshot.seconds_in_day

\* the test of the gap loop
GapLoopRuns ==
  has_previous_snapshot_ /\ gap_time < snapshot.seconds_in_day

\* one pass of the gap loop
FillGap ==
  /\ ta_pc = "gap_loop"
  /\ GapLoopRuns
  /\ gap_snapshot_' = GetGapSnapshot(gap_time)
  /\ \E ub \in EmptyBackOutcomes :
       /\ ProcessSnapshotInternal(gap_snapshot_', TRUE, ub)
       /\ ta_pc' = IF Aborts(gap_snapshot_', ub) THEN "aborted" ELSE "gap_loop"
  /\ gap_time' = gap_time + snapshot_interval
  /\ UNCHANGED <<has_previous_snapshot_, last_processed_time_, last_snapshot_,
                 snapshot, ta_calls>>
  /\ UNCHANGED notTA

\* the loop is over: the incoming snapshot is processed and becomes the baseline
ProcessIncoming ==
  /\ ta_pc = "gap_loop"
  /\ ~GapLoopRuns
  /\ \E ub \in EmptyBackOutcomes :
       /\ ProcessSnapshotInternal(snapshot, FALSE, ub)
       /\ IF Aborts(snapshot, ub)
            THEN /\ ta_pc' = "aborted"
                 /\ UNCHANGED <<last_snapshot_, has_previous_snapshot_,
                                last_processed_time_>>
            ELSE /\ ta_pc' = "idle"
                 /\ last_snapshot_' = snapshot
                 /\ has_previous_snapshot_' = TRUE
                 /\ last_processed_time_' = snapshot.seconds_in_day
  /\ UNCHANGED <<gap_snapshot_, snapshot, gap_time, ta_calls>>
  /\ UNCHANGED notTA

TAInit ==
  /\ has_previous_snapshot_ = FALSE
  /\ has_current_bar_ = FALSE
  /\ last_processed_time_ = 0
  /\ last_snapshot_ = NoSnapshot
  /\ gap_snapshot_ = NoSnapshot
  /\ current_bar_ = NoBar
  /\ continuous_snapshots_ = << >>
  /\ minute_bars_ = << >>
  /\ snapshot_bufs =
       [snapshot_timestamps_ |-> << >>, snapshot_prices_ |-> << >>,
        snapshot_volumes_ |-> << >>, snapshot_turnovers_ |-> << >>,
        snapshot_vwaps_ |-> << >>, snapshot_directions_ |-> << >>,
        snapshot_spreads_ |-> << >>, snapshot_mid_prices_ |-> << >>]
  /\ bar_bufs =
       [bar_timestamps_ |-> << >>, bar_opens_ |-> << >>, bar_highs_ |-> << >>,
        bar_lows_ |-> << >>, bar_closes_ |-> << >>, bar_volumes_ |-> << >>,
        bar_turnovers_ |-> << >>, bar_vwaps_ |-> << >>]
  /\ snapshot = NoSnapshot
  /\ gap_time = 0
  /\ ta_pc = "idle"
  /\ is_gap = << >>
  /\ ta_calls = 0

TANext ==
  \/ \E s \in Snapshots : ProcessSingleSnapshot(s)
  \/ FillGap
  \/ ProcessIncoming

\* the same calls on records that lie whole minutes apart
TAGapNext ==
  \/ \E s \in GapSnapshots : ProcessSingleSnapshot(s)
  \/ FillGap
  \/ ProcessIncoming

----------------------------------------------------------------------------
(* The delta codec: Parser::ReverseDifferentialEncoding and its inverse    *)

\* widths of the delta-coded fields of BinaryRecord / TickRecord
UInt16 == 65536
Int16Min == -32768

\* longest block explored
MaxBlockLen == 3

\* conversion of an int result back to uint8_t, uint16_t, int16_t
ToUInt8(x) == x % UInt8
ToUInt16(x) == x % UInt16
ToInt16(x) == ((x - Int16Min) % UInt16) + Int16Min

\* the 5 price levels of a record
Levels == 1..5

\* 5-level books that arrive together
Books ==
  { [bid_price_ticks |-> <<999, 998, 997, 996, 995>>,
     ask_price_ticks |-> <<1001, 1002, 1003, 1004, 1005>>,
     bid_volumes |-> <<5, 4, 3, 2, 1>>, ask_volumes |-> <<1, 2, 3, 4, 5>>],
    [bid_price_ticks |-> <<-32768, 32767, 0, -1, 1>>,
     ask_price_ticks |-> <<32767, -32768, 1, 0, -1>>,
     bid_volumes |-> <<7, 7, 7, 7, 7>>, ask_volumes |-> <<9, 9, 9, 9, 9>>] }

\* last price with the absolute fields that arrive with it
Trades ==
  { [latest_price_tick |-> 1000, trade_count |-> 0, turnover |-> 0, volume |-> 0,
     direction |-> 0, sync |-> FALSE],
    [latest_price_tick |-> 32767, trade_count |-> 3, turnover |-> 2100, volume |-> 2,
     direction |-> 1, sync |-> TRUE],
    [latest_price_tick |-> -32768, trade_count |-> 1, turnover |-> 2940, volume |-> 3,
     direction |-> 2, sync |-> FALSE] }

\* BinaryRecord values: any day and time of the sets with any trade and book
BinaryRecords ==
  { [sync |-> tr.sync, day |-> d, time_s |-> t,
     latest_price_tick |-> tr.latest_price_tick,
     trade_count |-> tr.trade_count, turnover |-> tr.turnover,
     volume |-> tr.volume,
     bid_price_ticks |-> bk.bid_price_ticks, bid_volumes |-> bk.bid_volumes,
     ask_price_ticks |-> bk.ask_price_ticks, ask_volumes |-> bk.ask_volumes,
     direction |-> tr.direction] :
    d \in {1, 255}, t \in {0, 65535}, tr \in Trades, bk \in Books }

\* all blocks of 0..MaxBlockLen records
Blocks == UNION { [1..n -> BinaryRecords] : n \in 0..MaxBlockLen }

\* record cur after "cur.f += prev.f" on every delta-coded field, without the
\* conversion back to the field's type
AddPredecessor_no_wrap(cur, prev) ==
  [cur EXCEPT
     !.day = cur.day + prev.day,
     !.time_s = cur.time_s + prev.time_s,
     !.latest_price_tick = cur.latest_price_tick + prev.latest_price_tick,
     !.bid_price_ticks =
        [j \in Levels |-> cur.bid_price_ticks[j] + prev.bid_price_ticks[j]],
     !.ask_price_ticks =
        [j \in Levels |-> cur.ask_price_ticks[j] + prev.ask_price_ticks[j]]]

\* record cur after "cur.f += prev.f" on every delta-coded field and on volume
AddPredecessor_adds_volume(cur, prev) ==
  [cur EXCEPT
     !.day = ToUInt8(cur.day + prev.day),
     !.time_s = ToUInt16(cur.time_s + prev.time_s),
     !.latest_price_tick = ToInt16(cur.latest_price_tick + prev.latest_price_tick),
     !.volume = ToUInt16(cur.volume + prev.volume),
     !.bid_price_ticks =
        [j \in Levels |-> ToInt16(cur.bid_price_ticks[j] + prev.bid_price_ticks[j])],
     !.ask_price_ticks =
        [j \in Levels |-> ToInt16(cur.ask_price_ticks[j] + prev.ask_price_ticks[j])]]

\* record cur after "cur.f += prev.f" on every delta-coded field
AddPredecessor(cur, prev) ==
  [cur EXCEPT
     !.day = ToUInt8(cur.day + prev.day),
     !.time_s = ToUInt16(cur.time_s + prev.time_s),
     !.latest_price_tick = ToInt16(cur.latest_price_tick + prev.latest_price_tick),
     !.bid_price_ticks =
        [j \in Levels |-> ToInt16(cur.bid_price_ticks[j] + prev.bid_price_ticks[j])],
     !.ask_price_ticks =
        [j \in Levels |-> ToInt16(cur.ask_price_ticks[j] + prev.ask_price_ticks[j])]]

\* the loop with every record given its predecessor's stored value, not the
\* value the loop has already written
ReverseFrom_stored_predecessor(records, i) ==
  [k \in 1..Len(records) |->
     IF k < i THEN records[k] ELSE AddPredecessor(records[k], records[k - 1])]

\* the loop for (i = 1; i < records.size(); ++i), from 1-based position i on
RECURSIVE ReverseFrom(_, _)
ReverseFrom(records, i) ==
  IF i > Len(records)
    THEN records
    ELSE ReverseFrom([records EXCEPT ![i] = AddPredecessor(records[i], records[i - 1])],
                     i + 1)

\* the vector ReverseDifferentialEncoding leaves
ReverseDifferentialEncoding(records) ==
  IF Len(records) <= 1 THEN records ELSE ReverseFrom(records, 2)

\* record cur with every delta-coded field replaced by cur.f - prev.f in the
\* field's type
SubtractPredecessor(cur, prev) ==
  [cur EXCEPT
     !.day = ToUInt8(cur.day - prev.day),
     !.time_s = ToUInt16(cur.time_s - prev.time_s),
     !.latest_price_tick = ToInt16(cur.latest_price_tick - prev.latest_price_tick),
     !.bid_price_ticks =
        [j \in Levels |-> ToInt16(cur.bid_price_ticks[j] - prev.bid_price_ticks[j])],
     !.ask_price_ticks =
        [j \in Levels |-> ToInt16(cur.ask_price_ticks[j] - prev.ask_price_ticks[j])]]

\* the encoder that writes the files: record 0 kept, record i stored as its
\* difference from record i - 1
DifferentialEncode(records) ==
  [i \in 1..Len(records) |->
     IF i = 1 THEN records[1] ELSE SubtractPredecessor(records[i], records[i - 1])]

EncodeBlock ==
  /\ rd_pc = "raw"
  /\ rd_records' = DifferentialEncode(rd_records)
  /\ rd_pc' = "encoded"
  /\ UNCHANGED rd_original
  /\ UNCHANGED notRD

ReverseBlock ==
  /\ rd_pc \in {"raw", "encoded"}
  /\ rd_records' = ReverseDifferentialEncoding(rd_records)
  /\ rd_pc' = IF rd_pc = "encoded" THEN "round_trip" ELSE "reversed"
  /\ UNCHANGED rd_original
  /\ UNCHANGED notRD

\* no block is being decoded
RDInit ==
  /\ rd_original = << >>
  /\ rd_records = << >>
  /\ rd_pc = "raw"

\* a block of absolute records is given
RDInitBlock ==
  /\ rd_original \in Blocks
  /\ rd_records = rd_original
  /\ rd_pc = "raw"

RDNext ==
  \/ EncodeBlock
  \/ ReverseBlock

----------------------------------------------------------------------------
(* Parser::ConvertToSnapshot3sAndBar1m: the Parser's own bar table.        *)
(* The loop takes the records of binary_records one by one; a record is    *)
(* chosen when the loop reaches it.                                        *)

\* records converted, all calls together
MaxRecords == 4

\* (day, time_s) of the records: 00:00:30, 00:01:01, 00:01:30 and 01:01:30 of
\* day 1, 00:01:30 of day 2
RecordStamps == { <<1, 30>>, <<1, 61>>, <<1, 90>>, <<1, 3690>>, <<2, 90>> }

\* last price, volume and turnover of the records
RecordTrades == { tr \in Trades : tr.volume > 0 }

\* decoded BinaryRecord values handed to ConvertToSnapshot3sAndBar1m
DecodedRecords ==
  { [sync |-> tr.sync, day |-> stamp[1], time_s |-> stamp[2],
     latest_price_tick |-> tr.latest_price_tick,
     trade_count |-> tr.trade_count, turnover |-> tr.turnover,
     volume |-> tr.volume,
     bid_price_ticks |-> bk.bid_price_ticks, bid_volumes |-> bk.bid_volumes,
     ask_price_ticks |-> bk.ask_price_ticks, ask_volumes |-> bk.ask_volumes,
     direction |-> tr.direction] :
    stamp \in RecordStamps, tr \in RecordTrades,
    bk \in { b \in Books : b.bid_volumes[1] = 5 } }

\* tick * 0.01 as an exact fraction
TickToPrice(tick) == Frac(tick, 100)

\* a < b on fractions with positive denominators
FracLess(a, b) == a.num * b.den < b.num * a.den

\* the locals current_hour, current_minute, current_second of the loop body
current_hour(record) == ToUInt8(record.time_s \div 3600)
remaining_seconds(record) ==
  ToUInt16(record.time_s - current_hour(record) * 3600)
current_minute(record) == ToUInt8(remaining_seconds(record) \div 60)
current_second(record) ==
  ToUInt8(remaining_seconds(record) - current_minute(record) * 60)

\* the condition of "if (current_minute != last_minute || current_hour != last_hour)"
TriggersNewBar(record) ==
  \/ current_minute(record) # last_minute
  \/ current_hour(record) # last_hour

\* new_bar of the loop body
new_bar(record) ==
  [year |-> year, month |-> month, day |-> record.day,
   hour |-> current_hour(record), minute |-> current_minute(record),
   open |-> TickToPrice(record.latest_price_tick),
   high |-> TickToPrice(record.latest_price_tick),
   low |-> TickToPrice(record.latest_price_tick),
   close |-> TickToPrice(record.latest_price_tick),
   volume |-> record.volume, turnover |-> record.turnover]

\* UpdateBar1mRecord without the "current_price < bar_record.low" branch
UpdateBar1mRecord_low_not_lowered(bar_record, binary_record) ==
  LET current_price == TickToPrice(binary_record.latest_price_tick)
  IN [bar_record EXCEPT
        !.high = IF FracLess(bar_record.high, current_price)
                   THEN current_price ELSE bar_record.high,
        !.close = current_price,
        !.volume = bar_record.volume + binary_record.volume,
        !.turnover = bar_record.turnover + binary_record.turnover]

\* bar_record after UpdateBar1mRecord(bar_record, binary_record)
UpdateBar1mRecord(bar_record, binary_record) ==
  LET current_price == TickToPrice(binary_record.latest_price_tick)
  IN [bar_record EXCEPT
        !.high = IF FracLess(bar_record.high, current_price)
                   THEN current_price ELSE bar_record.high,
        !.low = IF FracLess(current_price, bar_record.low)
                  THEN current_price ELSE bar_record.low,
        !.close = current_price,
        !.volume = bar_record.volume + binary_record.volume,
        !.turnover = bar_record.turnover + binary_record.turnover]

\* ConvertToSnapshot3s(record, minute_index, second)
ConvertToSnapshot3s(record, minute_index, second) ==
  [index_1m |-> minute_index, seconds |-> second,
   latest_price_tick |-> record.latest_price_tick,
   trade_count |-> record.trade_count, turnover |-> record.turnover,
   volume |-> record.volume,
   bid_price_ticks |-> record.bid_price_ticks, bid_volumes |-> record.bid_volumes,
   ask_price_ticks |-> record.ask_price_ticks, ask_volumes |-> record.ask_volumes,
   direction |-> record.direction]

\* bar_1m_buffer_.back() is taken of an empty vector
UpdatesEmptyTable(record) ==
  /\ ~TriggersNewBar(record)
  /\ Len(bar_1m_buffer_) = 0

\* what the write through back() of an empty vector can do: stop the program,
\* or land outside the table and leave it as it is
EmptyTableOutcomes == { "abort", "table_unchanged" }

\* entry of ConvertToSnapshot3sAndBar1m(binary_records, y, m) with a block that
\* is not empty: the locals are set up
ConvertToSnapshot3sAndBar1m(y, m) ==
  /\ ps_pc = "idle"
  /\ ps_records < MaxRecords
  /\ year' = y
  /\ month' = m
  /\ current_minute_index' = 0
  /\ last_minute' = 0
  /\ last_hour' = 0
  /\ block_pos' = 0
  /\ ps_pc' = "convert"
  /\ ps_files' = ps_files + 1
  /\ UNCHANGED <<bar_1m_buffer_, snapshot_3s_buffer_, ps_records, ps_source>>
  /\ UNCHANGED notPS

\* one pass of "for (const auto &record : binary_records)"
ConvertRecord(record, ub) ==
  /\ ps_pc = "convert"
  /\ ps_records < MaxRecords
  /\ block_pos' = block_pos + 1
  /\ ps_records' = ps_records + 1
  /\ IF UpdatesEmptyTable(record) /\ ub = "abort"
       THEN /\ ps_pc' = "aborted"
            /\ UNCHANGED <<bar_1m_buffer_, snapshot_3s_buffer_, ps_source,
                           current_minute_index, last_minute, last_hour>>
       ELSE /\ ps_pc' = "convert"
            /\ IF TriggersNewBar(record)
                 THEN /\ current_minute_index' = Len(bar_1m_buffer_)
                      /\ bar_1m_buffer_' = Append(bar_1m_buffer_, new_bar(record))
                      /\ last_minute' = current_minute(record)
                      /\ last_hour' = current_hour(record)
                 ELSE /\ bar_1m_buffer_' =
                           IF Len(bar_1m_buffer_) = 0
                             THEN bar_1m_buffer_
                             ELSE [bar_1m_buffer_ EXCEPT
                                     ![Len(bar_1m_buffer_)] =
                                       UpdateBar1mRecord(@, record)]
                      /\ UNCHANGED <<current_minute_index, last_minute, last_hour>>
            /\ snapshot_3s_buffer_' =
                 Append(snapshot_3s_buffer_,
                        ConvertToSnapshot3s(record, current_minute_index',
                                            current_second(record)))
            /\ ps_source' = Append(ps_source,
                                   [month |-> month, day |-> record.day,
                                    time_s |-> record.time_s])
  /\ UNCHANGED <<year, month, ps_files>>
  /\ UNCHANGED notPS

\* the loop has been through the last record of binary_records
ConvertReturns ==
  /\ ps_pc = "convert"
  /\ block_pos > 0
  /\ ps_pc' = "idle"
  /\ UNCHANGED <<bar_1m_buffer_, snapshot_3s_buffer_, year, month,
                 current_minute_index, last_minute, last_hour, block_pos,
                 ps_files, ps_records, ps_source>>
  /\ UNCHANGED notPS

\* Parser::ParseAsset has cleared both tables
PSInit ==
  /\ bar_1m_buffer_ = << >>
  /\ snapshot_3s_buffer_ = << >>
  /\ year = 0
  /\ month = 0
  /\ current_minute_index = 0
  /\ last_minute = 0
  /\ last_hour = 0
  /\ block_pos = 0
  /\ ps_pc = "idle"
  /\ ps_files = 0
  /\ ps_records = 0
  /\ ps_source = << >>

\* ParseAsset goes through the month folders of one year in order
PSNext ==
  \/ ConvertToSnapshot3sAndBar1m(2024, ps_files + 1)
  \/ \E record \in DecodedRecords, ub \in EmptyTableOutcomes :
       ConvertRecord(record, ub)
  \/ ConvertReturns

----------------------------------------------------------------------------
(* Parser::ParseBinaryData: the decompressed bytes taken as TickRecords    *)

\* sizeof(TickRecord), packed
sizeof_TickRecord == 54

\* longest byte vector explored
MaxBytes == 163

\* byte vectors of every length up to MaxBytes, with two fillings
ByteVectors ==
  { [i \in 1..n |-> (i * step) % UInt8] : n \in 0..MaxBytes, step \in {1, 7} }

\* std::memcpy(records.data(), binary_data.data(), binary_data.size()): record
\* k holds the bytes from offset (k - 1) * sizeof(TickRecord) on
RecordBytesAt(bytes, k) ==
  SubSeq(bytes, (k - 1) * sizeof_TickRecord + 1, k * sizeof_TickRecord)

\* ParseBinaryData without the test of the remainder
ParseBinaryData_ignores_remainder(bytes) ==
  LET record_count == Len(bytes) \div sizeof_TickRecord
  IN  IF record_count = 0
        THEN [records |-> << >>, cerr |-> "Invalid binary data size"]
        ELSE [records |-> [k \in 1..record_count |-> RecordBytesAt(bytes, k)],
              cerr |-> ""]

\* what ParseBinaryData(binary_data) returns and prints
ParseBinaryData(bytes) ==
  LET record_count == Len(bytes) \div sizeof_TickRecord
  IN  IF record_count = 0 \/ Len(bytes) % sizeof_TickRecord # 0
        THEN [records |-> << >>, cerr |-> "Invalid binary data size"]
        ELSE [records |-> [k \in 1..record_count |-> RecordBytesAt(bytes, k)],
              cerr |-> ""]

CallParseBinaryData ==
  /\ pb_pc = "call"
  /\ pb_records' = ParseBinaryData(binary_data).records
  /\ pb_cerr' = ParseBinaryData(binary_data).cerr
  /\ pb_pc' = "returned"
  /\ UNCHANGED binary_data
  /\ UNCHANGED notPB

\* nothing has been decompressed
PBInit ==
  /\ binary_data = << >>
  /\ pb_records = << >>
  /\ pb_cerr = ""
  /\ pb_pc = "call"

\* a byte vector is given
PBInitBytes ==
  /\ binary_data \in ByteVectors
  /\ pb_records = << >>
  /\ pb_cerr = ""
  /\ pb_pc = "call"

PBNext == CallParseBinaryData

----------------------------------------------------------------------------
(* Parser::DecompressFile, both overloads                                  *)

\* largest compressed file, largest decompressed stream and largest record
\* count explored
MaxCompressed == 9
MaxStream == 300
MaxRecordCount == 2

\* a zlib stream has at least 8 bytes; a file of 0 bytes holds none
CompressedSizes == {0} \cup 8..MaxCompressed

\* the bytes a stream of n bytes decompresses to
StreamBytes(n) == [i \in 1..n |-> i % UInt8]

\* the files DecompressFile can be pointed at: whether the file opens, its
\* size, whether its stream is damaged, and the bytes the stream holds
Files ==
  { [openable |-> o, compressed_size |-> cs, corrupt |-> c,
     bytes |-> StreamBytes(n)] :
      o \in BOOLEAN, cs \in CompressedSizes, c \in BOOLEAN, n \in 0..MaxStream }

\* a file that holds a stream, or is known to be damaged
WellFormedFile(f) ==
  /\ f.corrupt => f.bytes = << >>
  /\ f.compressed_size = 0 => f.corrupt

\* mz_uncompress(dest, &dest_len, source, source_len) of miniz: the result and
\* the value left in dest_len
mz_uncompress(f, dest_len) ==
  IF f.corrupt
    THEN [result |-> "MZ_DATA_ERROR", dest_len |-> dest_len]
    ELSE IF Len(f.bytes) <= dest_len
           THEN [result |-> "MZ_OK", dest_len |-> Len(f.bytes)]
           ELSE [result |-> "MZ_BUF_ERROR", dest_len |-> dest_len]

\* while (result == MZ_BUF_ERROR && decompressed_size < compressed_size * 32)
RECURSIVE FallbackLoop(_, _, _, _)
FallbackLoop(f, decompressed_size, result, attempts) ==
  IF result = "MZ_BUF_ERROR" /\ decompressed_size < f.compressed_size * 32
    THEN LET r == mz_uncompress(f, decompressed_size)
         IN  FallbackLoop(f,
                 IF r.result = "MZ_BUF_ERROR" THEN decompressed_size * 2 ELSE r.dest_len,
                 r.result, Append(attempts, decompressed_size))
    ELSE [decompressed_size |-> decompressed_size, result |-> result,
          attempts |-> attempts]

\* "return {}" after the file did not open, and after no attempt succeeded
ReturnOpenFailed ==
  [data |-> << >>, cerr |-> <<"Failed to open file">>, attempts |-> << >>,
   outcome |-> "io_error"]
ReturnDecompressionFailed(cerr, attempts) ==
  [data |-> << >>, cerr |-> Append(cerr, "Decompression failed"),
   attempts |-> attempts, outcome |-> "decompression_failed"]

\* "decompressed_data.resize(n); return decompressed_data;"
ReturnDecompressed(f, n, cerr, attempts) ==
  [data |-> SubSeq(f.bytes, 1, n), cerr |-> cerr,
   attempts |-> attempts, outcome |-> "ok"]

\* DecompressFile(filepath, record_count): one attempt with the exact size
DecompressFileWithCount(f, record_count) ==
  IF ~f.openable
    THEN ReturnOpenFailed
    ELSE LET exact_size == record_count * sizeof_TickRecord
             r == mz_uncompress(f, exact_size)
         IN  IF r.result # "MZ_OK"
               THEN ReturnDecompressionFailed(<< >>, <<exact_size>>)
               ELSE ReturnDecompressed(f, r.dest_len, << >>, <<exact_size>>)

\* the part of DecompressFile(filepath) after the fast attempt
DecompressFallback(f, cerr, attempts) ==
  LET loop == FallbackLoop(f, f.compressed_size * 8, "MZ_BUF_ERROR", attempts)
  IN  IF loop.result # "MZ_OK"
        THEN ReturnDecompressionFailed(cerr, loop.attempts)
        ELSE ReturnDecompressed(f, loop.decompressed_size, cerr, loop.attempts)

\* DecompressFile(filepath): the fast attempt when the file name holds a record
\* count, then the fallback loop
DecompressFileFromName(f, record_count) ==
  IF ~f.openable
    THEN ReturnOpenFailed
    ELSE IF record_count > 0
           THEN LET exact_size == record_count * sizeof_TickRecord
                    r == mz_uncompress(f, exact_size)
                IN  IF r.result = "MZ_OK"
                      THEN ReturnDecompressed(f, r.dest_len, << >>, <<exact_size>>)
                      ELSE DecompressFallback(f, <<"Fast decompression failed">>,
                                              <<exact_size>>)
           ELSE DecompressFallback(f, << >>, << >>)

DecompressFile(variant, f, record_count) ==
  IF variant = "with_record_count"
    THEN DecompressFileWithCount(f, record_count)
    ELSE DecompressFileFromName(f, record_count)

CallDecompressFile ==
  /\ dz_pc = "call"
  /\ LET ret == DecompressFile(dz_variant, dz_file, dz_record_count)
     IN  /\ dz_return' = ret.data
         /\ dz_cerr' = ret.cerr
         /\ dz_attempts' = ret.attempts
         /\ dz_outcome' = ret.outcome
  /\ dz_pc' = "returned"
  /\ UNCHANGED <<dz_variant, dz_file, dz_record_count>>
  /\ UNCHANGED notDZ

\* no file is being decompressed
DZInit ==
  /\ dz_variant = "with_record_count"
  /\ dz_file = [openable |-> FALSE, compressed_size |-> 0, corrupt |-> TRUE,
                bytes |-> << >>]
  /\ dz_record_count = 0
  /\ dz_return = << >>
  /\ dz_cerr = << >>
  /\ dz_attempts = << >>
  /\ dz_outcome = "none"
  /\ dz_pc = "call"

\* a file is given to one of the overloads
DZInitFile ==
  /\ dz_variant \in {"with_record_count", "from_filename"}
  /\ dz_file \in { f \in Files : WellFormedFile(f) }
  /\ dz_record_count \in 0..MaxRecordCount
  /\ dz_return = << >>
  /\ dz_cerr = << >>
  /\ dz_attempts = << >>
  /\ dz_outcome = "none"
  /\ dz_pc = "call"

DZNext == CallDecompressFile

----------------------------------------------------------------------------
(* The month loop of Parser::ParseAsset and Parser::ParseAssetLifespan, and  *)
(* Parser::ParseSingleFile: find, decompress, parse, reverse, store          *)

\* number of month folders of an asset
MaxMonths == 2

\* TickRecord in memory (packed, little-endian): the value of 2 and of 4 bytes
\* at an offset
UInt16At(raw, offset) == raw[offset + 1] + raw[offset + 2] * UInt8
Int16At(raw, offset) == ToInt16(UInt16At(raw, offset))
UInt32At(raw, offset) ==
  UInt16At(raw, offset) + UInt16At(raw, offset + 2) * UInt16

\* the TickRecord that 54 bytes are read as
FieldsOf(raw) ==
  [sync |-> raw[1] # 0,
   day |-> raw[2],
   time_s |-> UInt16At(raw, 2),
   latest_price_tick |-> Int16At(raw, 4),
   trade_count |-> raw[7],
   turnover |-> UInt32At(raw, 7),
   volume |-> UInt16At(raw, 11),
   bid_price_ticks |-> [j \in Levels |-> Int16At(raw, 13 + 2 * (j - 1))],
   bid_volumes |-> [j \in Levels |-> UInt16At(raw, 23 + 2 * (j - 1))],
   ask_price_ticks |-> [j \in Levels |-> Int16At(raw, 33 + 2 * (j - 1))],
   ask_volumes |-> [j \in Levels |-> UInt16At(raw, 43 + 2 * (j - 1))],
   direction |-> raw[54]]

\* the bytes of a value of 2 bytes, and of five of them
Image16(x) == <<ToUInt16(x) % UInt8, ToUInt16(x) \div UInt8>>
Image16x5(a) ==
  Image16(a[1]) \o Image16(a[2]) \o Image16(a[3]) \o Image16(a[4]) \o Image16(a[5])

\* the 54 bytes a TickRecord is stored as
ImageOf(rec) ==
  <<IF rec.sync THEN 1 ELSE 0, rec.day>>
  \o Image16(rec.time_s) \o Image16(rec.latest_price_tick)
  \o <<rec.trade_count>>
  \o Image16(rec.turnover % UInt16) \o Image16(rec.turnover \div UInt16)
  \o Image16(rec.volume)
  \o Image16x5(rec.bid_price_ticks) \o Image16x5(rec.bid_volumes)
  \o Image16x5(rec.ask_price_ticks) \o Image16x5(rec.ask_volumes)
  \o <<rec.direction>>

\* stored records: the first of a file, 09:30:00 of day 1
StoredFirst ==
  [sync |-> FALSE, day |-> 1, time_s |-> 34200, latest_price_tick |-> 1000,
   trade_count |-> 1, turnover |-> 2100, volume |-> 2,
   bid_price_ticks |-> <<999, 998, 997, 996, 995>>,
   bid_volumes |-> <<5, 4, 3, 2, 1>>,
   ask_price_ticks |-> <<1001, 1002, 1003, 1004, 1005>>,
   ask_volumes |-> <<1, 2, 3, 4, 5>>, direction |-> 0]

\* a stored difference: 3 s later, one tick down
StoredStep ==
  [sync |-> TRUE, day |-> 0, time_s |-> 3, latest_price_tick |-> -1,
   trade_count |-> 2, turnover |-> 999, volume |-> 1,
   bid_price_ticks |-> <<-1, -1, -1, -1, -1>>,
   bid_volumes |-> <<7, 7, 7, 7, 7>>,
   ask_price_ticks |-> <<-1, -1, -1, -1, -1>>,
   ask_volumes |-> <<9, 9, 9, 9, 9>>, direction |-> 1]

\* a stored difference: a day later, 60 s later, two ticks up
StoredNextDay ==
  [sync |-> FALSE, day |-> 1, time_s |-> 60, latest_price_tick |-> 2,
   trade_count |-> 1, turnover |-> 70000, volume |-> 3,
   bid_price_ticks |-> <<2, 2, 2, 2, 2>>,
   bid_volumes |-> <<1, 1, 1, 1, 1>>,
   ask_price_ticks |-> <<2, 2, 2, 2, 2>>,
   ask_volumes |-> <<2, 2, 2, 2, 2>>, direction |-> 2]

\* the blocks stored in month files
StoredBlocks ==
  { <<StoredFirst>>, <<StoredFirst, StoredStep>>,
    <<StoredFirst, StoredNextDay>>, <<StoredFirst, StoredStep, StoredNextDay>> }

\* the bytes of a block
RECURSIVE ImageOfBlock(_)
ImageOfBlock(block) ==
  IF block = << >> THEN << >>
  ELSE ImageOf(block[1]) \o ImageOfBlock(Tail(block))

\* streams of month files: nothing, whole blocks, and blocks cut or extended
\* by a byte
MonthStreams ==
  {<< >>}
  \cup { ImageOfBlock(b) : b \in StoredBlocks }
  \cup { ImageOfBlock(b) \o <<0>> : b \in {<<StoredFirst>>} }
  \cup { SubSeq(ImageOfBlock(b), 1, 2 * sizeof_TickRecord - 1) :
           b \in {<<StoredFirst, StoredStep>>} }

\* what a month folder holds for the asset: no file, a file that does not open
\* or holds a damaged stream, or a file with a stream and the record count of
\* its name (none, the right one, or 1)
MonthFiles ==
  { [found |-> FALSE, record_count |-> 0,
     file |-> [openable |-> FALSE, compressed_size |-> 0, corrupt |-> TRUE,
               bytes |-> << >>]] }
  \cup { [found |-> TRUE, record_count |-> 1,
          file |-> [openable |-> o, compressed_size |-> 8, corrupt |-> TRUE,
                    bytes |-> << >>]] : o \in BOOLEAN }
  \cup UNION { { [found |-> TRUE, record_count |-> rc,
                  file |-> [openable |-> TRUE, compressed_size |-> 8,
                            corrupt |-> FALSE, bytes |-> bs]] :
                   rc \in {0, Len(bs) \div sizeof_TickRecord} } :
               bs \in MonthStreams }
  \cup { [found |-> TRUE, record_count |-> 1,
          file |-> [openable |-> TRUE, compressed_size |-> 8, corrupt |-> FALSE,
                    bytes |-> ImageOfBlock(<<StoredFirst, StoredStep, StoredNextDay>>)]] }

\* the overload of DecompressFile the entry point calls
OverloadOf(entry) ==
  IF entry = "ParseAsset" THEN "with_record_count" ELSE "from_filename"

\* the tables an asset accumulates
Tables == <<bar_1m_buffer_, snapshot_3s_buffer_, asset_records_buffer_>>

\* "continue", and the end of the loop body: on to the next month folder
NextMonthFolder ==
  /\ pa_month' = pa_month + 1
  /\ pa_pc' = "find"

\* FindAssetFile(month_path, asset_code) and the test of its result; in
\* ParseSingleFile the test std::filesystem::exists(full_path)
FindAssetFile ==
  /\ pa_pc = "find"
  /\ pa_month <= Len(month_files)
  /\ pa_log' = Append(pa_log, <<pa_month, "FindAssetFile">>)
  /\ pa_tables_before' = Tables
  /\ IF month_files[pa_month].found
       THEN /\ pa_pc' = "decompress"
            /\ UNCHANGED pa_month
       ELSE IF pa_entry = "ParseSingleFile"
              THEN /\ pa_pc' = "thrown"
                   /\ UNCHANGED pa_month
              ELSE NextMonthFolder
  /\ UNCHANGED <<pa_entry, month_files, decompressed_data, pa_records,
                 asset_records_buffer_, text_records, pa_sunk, csv_written>>
  /\ UNCHANGED notPA

\* the loop left, not continued, when decompressed_data is empty
Decompress_returns_on_empty ==
  /\ pa_pc = "decompress"
  /\ LET f == month_files[pa_month]
         ret == DecompressFile(OverloadOf(pa_entry), f.file, f.record_count)
     IN  /\ decompressed_data' = ret.data
         /\ pa_pc' = IF ret.data # << >> THEN "parse" ELSE "done"
  /\ pa_log' = Append(pa_log, <<pa_month, "DecompressFile">>)
  /\ UNCHANGED <<pa_entry, month_files, pa_month, pa_records,
                 asset_records_buffer_, text_records, pa_sunk,
                 pa_tables_before, csv_written>>
  /\ UNCHANGED notPA

\* auto decompressed_data = DecompressFile(...) and the test of empty()
Decompress ==
  /\ pa_pc = "decompress"
  /\ LET f == month_files[pa_month]
         ret == DecompressFile(OverloadOf(pa_entry), f.file, f.record_count)
     IN  /\ decompressed_data' = ret.data
         /\ IF ret.data # << >>
              THEN /\ pa_pc' = "parse"
                   /\ UNCHANGED pa_month
              ELSE IF pa_entry = "ParseSingleFile"
                     THEN /\ pa_pc' = "thrown"
                          /\ UNCHANGED pa_month
                     ELSE NextMonthFolder
  /\ pa_log' = Append(pa_log, <<pa_month, "DecompressFile">>)
  /\ UNCHANGED <<pa_entry, month_files, pa_records, asset_records_buffer_,
                 text_records, pa_sunk, pa_tables_before, csv_written>>
  /\ UNCHANGED notPA

\* auto records = ParseBinaryData(decompressed_data); in ParseSingleFile also
\* the test of records.empty()
Parse ==
  /\ pa_pc = "parse"
  /\ LET parsed == ParseBinaryData(decompressed_data).records
     IN  /\ pa_records' = [k \in 1..Len(parsed) |-> FieldsOf(parsed[k])]
         /\ pa_pc' = IF pa_entry = "ParseSingleFile" /\ parsed = << >>
                       THEN "thrown" ELSE "reverse"
  /\ pa_log' = Append(pa_log, <<pa_month, "ParseBinaryData">>)
  /\ UNCHANGED <<pa_entry, month_files, pa_month, decompressed_data,
                 asset_records_buffer_, text_records, pa_sunk,
                 pa_tables_before, csv_written>>
  /\ UNCHANGED notPA

\* ReverseDifferentialEncoding run twice on the block
Reverse_twice ==
  /\ pa_pc = "reverse"
  /\ pa_records' = ReverseDifferentialEncoding(ReverseDifferentialEncoding(pa_records))
  /\ pa_pc' = "sink"
  /\ pa_log' = Append(pa_log, <<pa_month, "ReverseDifferentialEncoding">>)
  /\ UNCHANGED <<pa_entry, month_files, pa_month, decompressed_data,
                 asset_records_buffer_, text_records, pa_sunk,
                 pa_tables_before, csv_written>>
  /\ UNCHANGED notPA

\* ReverseDifferentialEncoding(records)
Reverse ==
  /\ pa_pc = "reverse"
  /\ pa_records' = ReverseDifferentialEncoding(pa_records)
  /\ pa_pc' = "sink"
  /\ pa_log' = Append(pa_log, <<pa_month, "ReverseDifferentialEncoding">>)
  /\ UNCHANGED <<pa_entry, month_files, pa_month, decompressed_data,
                 asset_records_buffer_, text_records, pa_sunk,
                 pa_tables_before, csv_written>>
  /\ UNCHANGED notPA

\* ParseAssetLifespan: asset_records_buffer_.insert(end, records.begin(),
\* records.end())
InsertRecords ==
  /\ pa_pc = "sink"
  /\ pa_entry = "ParseAssetLifespan"
  /\ asset_records_buffer_' = asset_records_buffer_ \o pa_records
  /\ NextMonthFolder
  /\ pa_log' = Append(pa_log, <<pa_month, "insert">>)
  /\ UNCHANGED <<pa_entry, month_files, decompressed_data, pa_records,
                 text_records, pa_sunk, pa_tables_before, csv_written>>
  /\ UNCHANGED notPA

\* ParseSingleFile: WriteRecordsToText(records, symbol), the last step
WriteRecordsToText ==
  /\ pa_pc = "sink"
  /\ pa_entry = "ParseSingleFile"
  /\ text_records' = pa_records
  /\ pa_pc' = "done"
  /\ pa_log' = Append(pa_log, <<pa_month, "WriteRecordsToText">>)
  /\ UNCHANGED <<pa_entry, month_files, pa_month, decompressed_data, pa_records,
                 asset_records_buffer_, pa_sunk, pa_tables_before, csv_written>>
  /\ UNCHANGED notPA

\* ParseAsset: ConvertToSnapshot3sAndBar1m(records, year, month) is entered
ConvertEntered ==
  /\ pa_pc = "sink"
  /\ pa_entry = "ParseAsset"
  /\ pa_records # << >>
  /\ ps_files = pa_sunk
  /\ ConvertToSnapshot3sAndBar1m(2024, pa_month)

\* its loop takes the next record of records
ConvertNextRecord ==
  /\ pa_pc = "sink"
  /\ pa_entry = "ParseAsset"
  /\ block_pos < Len(pa_records)
  /\ \E ub \in EmptyTableOutcomes : ConvertRecord(pa_records[block_pos + 1], ub)

\* its loop is through
ConvertReturned ==
  /\ pa_pc = "sink"
  /\ pa_entry = "ParseAsset"
  /\ block_pos = Len(pa_records)
  /\ ConvertReturns

\* ParseAsset: the call has returned, or was made with no record and changed
\* nothing; the loop body ends
AfterConvert ==
  /\ pa_pc = "sink"
  /\ pa_entry = "ParseAsset"
  /\ ps_pc = "idle"
  /\ \/ /\ pa_records # << >>
        /\ ps_files = pa_sunk + 1
        /\ pa_sunk' = pa_sunk + 1
     \/ /\ pa_records = << >>
        /\ UNCHANGED pa_sunk
  /\ NextMonthFolder
  /\ pa_log' = Append(pa_log, <<pa_month, "ConvertToSnapshot3sAndBar1m">>)
  /\ UNCHANGED <<pa_entry, month_files, decompressed_data, pa_records,
                 asset_records_buffer_, text_records, pa_tables_before,
                 csv_written>>
  /\ UNCHANGED notPA

\* after the last month folder: the tables are written out and cleared
WriteAndClear ==
  /\ pa_pc = "find"
  /\ pa_month > Len(month_files)
  /\ csv_written' = Tables
  /\ bar_1m_buffer_' = << >>
  /\ snapshot_3s_buffer_' = << >>
  /\ asset_records_buffer_' = << >>
  /\ ps_source' = << >>
  /\ pa_pc' = "done"
  /\ UNCHANGED <<pa_entry, month_files, pa_month, decompressed_data, pa_records,
                 text_records, pa_log, pa_sunk, pa_tables_before>>
  /\ UNCHANGED <<year, month, current_minute_index, last_minute, last_hour,
                 block_pos, ps_pc, ps_files, ps_records>>
  /\ UNCHANGED notPAPS

\* a Parser that has been given nothing
PAInit ==
  /\ pa_entry = "ParseAsset"
  /\ month_files = << >>
  /\ pa_month = 1
  /\ pa_pc = "find"
  /\ decompressed_data = << >>
  /\ pa_records = << >>
  /\ asset_records_buffer_ = << >>
  /\ text_records = << >>
  /\ pa_log = << >>
  /\ pa_sunk = 0
  /\ pa_tables_before = <<<< >>, << >>, << >>>>
  /\ csv_written = <<<< >>, << >>, << >>>>

\* an entry point is called with the month folders of an asset, or with one
\* file
PAInitAsset ==
  /\ pa_entry \in {"ParseAsset", "ParseAssetLifespan", "ParseSingleFile"}
  /\ month_files \in UNION { [1..n -> MonthFiles] : n \in 1..MaxMonths }
  /\ pa_entry = "ParseSingleFile" => Len(month_files) = 1
  /\ pa_month = 1
  /\ pa_pc = "find"
  /\ decompressed_data = << >>
  /\ pa_records = << >>
  /\ asset_records_buffer_ = << >>
  /\ text_records = << >>
  /\ pa_log = << >>
  /\ pa_sunk = 0
  /\ pa_tables_before = <<<< >>, << >>, << >>>>
  /\ csv_written = <<<< >>, << >>, << >>>>

PANext ==
  \/ FindAssetFile
  \/ Decompress
  \/ Parse
  \/ Reverse
  \/ InsertRecords
  \/ WriteRecordsToText
  \/ ConvertEntered
  \/ ConvertNextRecord
  \/ ConvertReturned
  \/ AfterConvert
  \/ WriteAndClear

----------------------------------------------------------------------------
(* The batch driver: main's submission loop and the ProcessAsset tasks       *)

\* largest number of assets in stock_info_map
MaxAssets == 5

\* values std::thread::hardware_concurrency() reports
HardwareConcurrencies == {0, 1, 2}

\* futures without those whose task is ready:
\* futures.erase(std::remove_if(futures.begin(), futures.end(), is_completed), ...)
NotCompleted(fs) ==
  LET Running(a) == task[a] # "finished" IN SelectSeq(fs, Running)

\* unsigned num_threads = hardware_concurrency(); if (num_threads == 0) num_threads = 4;
DetermineThreads ==
  /\ drv_pc = "start"
  /\ num_threads' = IF hardware_concurrency = 0 THEN 4 ELSE hardware_concurrency
  /\ drv_pc' = "loop"
  /\ UNCHANGED <<stock_info_map, output_creatable, hardware_concurrency,
                 stock_iter, futures, task, outcome, launches, drv_cerr,
                 wait_index>>
  /\ UNCHANGED notDRV

\* while (stock_iter != stock_info_map.end()) and if (futures.size() >= num_threads)
LoopTest ==
  /\ drv_pc = "loop"
  /\ drv_pc' = IF stock_iter \notin stock_info_map THEN "final_wait"
               ELSE IF Len(futures) >= num_threads THEN "erase_completed"
               ELSE "launch"
  /\ UNCHANGED <<stock_info_map, output_creatable, hardware_concurrency,
                 num_threads, stock_iter, futures, task, outcome, launches,
                 drv_cerr, wait_index>>
  /\ UNCHANGED notDRV

\* the completed futures are erased and main waits on the front future
\* whenever one is left
EraseCompleted_then_waits ==
  /\ drv_pc = "erase_completed"
  /\ futures' = NotCompleted(futures)
  /\ drv_pc' = IF futures' # << >> THEN "wait_front" ELSE "launch"
  /\ UNCHANGED <<stock_info_map, output_creatable, hardware_concurrency,
                 num_threads, stock_iter, task, outcome, launches, drv_cerr,
                 wait_index>>
  /\ UNCHANGED notDRV

\* the completed futures are erased; if (futures.size() >= num_threads && !futures.empty())
EraseCompleted ==
  /\ drv_pc = "erase_completed"
  /\ futures' = NotCompleted(futures)
  /\ drv_pc' = IF Len(futures') >= num_threads /\ futures' # << >>
                 THEN "wait_front" ELSE "launch"
  /\ UNCHANGED <<stock_info_map, output_creatable, hardware_concurrency,
                 num_threads, stock_iter, task, outcome, launches, drv_cerr,
                 wait_index>>
  /\ UNCHANGED notDRV

\* the front future erased without waiting for its task
WaitFront_without_wait ==
  /\ drv_pc = "wait_front"
  /\ futures' = Tail(futures)
  /\ drv_pc' = "launch"
  /\ UNCHANGED <<stock_info_map, output_creatable, hardware_concurrency,
                 num_threads, stock_iter, task, outcome, launches, drv_cerr,
                 wait_index>>
  /\ UNCHANGED notDRV

\* futures.front().wait(); futures.erase(futures.begin());
WaitFront ==
  /\ drv_pc = "wait_front"
  /\ task[Head(futures)] = "finished"
  /\ futures' = Tail(futures)
  /\ drv_pc' = "launch"
  /\ UNCHANGED <<stock_info_map, output_creatable, hardware_concurrency,
                 num_threads, stock_iter, task, outcome, launches, drv_cerr,
                 wait_index>>
  /\ UNCHANGED notDRV

\* futures.push_back(std::async(std::launch::async, ProcessAsset, ...)); ++stock_iter;
Launch ==
  /\ drv_pc = "launch"
  /\ futures' = Append(futures, stock_iter)
  /\ task' = [task EXCEPT ![stock_iter] = "running"]
  /\ launches' = [launches EXCEPT ![stock_iter] = @ + 1]
  /\ stock_iter' = stock_iter + 1
  /\ drv_pc' = "loop"
  /\ UNCHANGED <<stock_info_map, output_creatable, hardware_concurrency,
                 num_threads, outcome, drv_cerr, wait_index>>
  /\ UNCHANGED notDRV

\* ProcessAsset calls ParseAssetLifespan, which throws before the month loop
\* when the output file cannot be created, and goes through the asset's
\* months otherwise; ProcessAsset then returns
CallParseAssetLifespan(a) ==
  /\ task[a] = "running"
  /\ IF output_creatable[a]
       THEN /\ task' = [task EXCEPT ![a] = "finished"]
            /\ outcome' = [outcome EXCEPT ![a] = "processed"]
       ELSE /\ task' = [task EXCEPT ![a] = "thrown"]
            /\ outcome' = [outcome EXCEPT ![a] = "failed"]
  /\ UNCHANGED drv_cerr
  /\ UNCHANGED <<stock_info_map, output_creatable, hardware_concurrency,
                 num_threads, stock_iter, futures, launches, wait_index, drv_pc>>
  /\ UNCHANGED notDRV

\* the exception ends the task without a report
CatchException_silently(a) ==
  /\ task[a] = "thrown"
  /\ task' = [task EXCEPT ![a] = "finished"]
  /\ UNCHANGED <<outcome, drv_cerr>>
  /\ UNCHANGED <<stock_info_map, output_creatable, hardware_concurrency,
                 num_threads, stock_iter, futures, launches, wait_index, drv_pc>>
  /\ UNCHANGED notDRV

\* catch (const std::exception &e): "Error processing asset ..." on std::cerr,
\* and ProcessAsset returns
CatchException(a) ==
  /\ task[a] = "thrown"
  /\ task' = [task EXCEPT ![a] = "finished"]
  /\ drv_cerr' = Append(drv_cerr, a)
  /\ UNCHANGED outcome
  /\ UNCHANGED <<stock_info_map, output_creatable, hardware_concurrency,
                 num_threads, stock_iter, futures, launches, wait_index, drv_pc>>
  /\ UNCHANGED notDRV

\* a step of the task running ProcessAsset(a)
ProcessAsset(a) ==
  \/ CallParseAssetLifespan(a)
  \/ CatchException(a)

\* the final loop going past a future without waiting for its task
FinalWait_without_wait ==
  /\ drv_pc = "final_wait"
  /\ wait_index <= Len(futures)
  /\ wait_index' = wait_index + 1
  /\ UNCHANGED <<stock_info_map, output_creatable, hardware_concurrency,
                 num_threads, stock_iter, futures, task, outcome, launches,
                 drv_cerr, drv_pc>>
  /\ UNCHANGED notDRV

\* for (auto &future : futures) future.wait();
FinalWait ==
  /\ drv_pc = "final_wait"
  /\ wait_index <= Len(futures)
  /\ task[futures[wait_index]] = "finished"
  /\ wait_index' = wait_index + 1
  /\ UNCHANGED <<stock_info_map, output_creatable, hardware_concurrency,
                 num_threads, stock_iter, futures, task, outcome, launches,
                 drv_cerr, drv_pc>>
  /\ UNCHANGED notDRV

\* "=== Processing completed successfully! ==="
ReportCompleted ==
  /\ drv_pc = "final_wait"
  /\ wait_index > Len(futures)
  /\ drv_pc' = "completed"
  /\ UNCHANGED <<stock_info_map, output_creatable, hardware_concurrency,
                 num_threads, stock_iter, futures, task, outcome, launches,
                 drv_cerr, wait_index>>
  /\ UNCHANGED notDRV

\* the steps of main
MainStep ==
  \/ DetermineThreads
  \/ LoopTest
  \/ EraseCompleted
  \/ WaitFront
  \/ Launch
  \/ FinalWait
  \/ ReportCompleted

\* no driver is running
DRVInit ==
  /\ stock_info_map = {}
  /\ output_creatable = << >>
  /\ hardware_concurrency = 0
  /\ num_threads = 0
  /\ stock_iter = 1
  /\ futures = << >>
  /\ task = << >>
  /\ outcome = << >>
  /\ launches = << >>
  /\ drv_cerr = << >>
  /\ wait_index = 1
  /\ drv_pc = "start"

\* main starts with the assets of stock_info_map; any of the assets' output
\* files may be impossible to create
DRVInitAssets ==
  /\ stock_info_map \in { 1..n : n \in 0..MaxAssets }
  /\ output_creatable \in [stock_info_map -> BOOLEAN]
  /\ hardware_concurrency \in HardwareConcurrencies
  /\ num_threads = 0
  /\ stock_iter = 1
  /\ futures = << >>
  /\ task = [a \in stock_info_map |-> "not_launched"]
  /\ outcome = [a \in stock_info_map |-> "none"]
  /\ launches = [a \in stock_info_map |-> 0]
  /\ drv_cerr = << >>
  /\ wait_index = 1
  /\ drv_pc = "start"

\* a task takes a step
TaskStep == \E a \in stock_info_map : ProcessAsset(a)

DRVNext ==
  \/ MainStep
  \/ TaskStep

----------------------------------------------------------------------------
(* The gap loop of ProcessSingleSnapshot by its counters alone, over the   *)
(* whole range of seconds_in_day                                           *)

\* seconds_in_day of the records: the first and the last seconds of a day
RecordTimes == {0, 1, 4, 7, 86397, 86399}

\* x + y in uint32_t, for y < 2^16, computed on the 16-bit halves of x
AddUInt32(x, y) ==
  LET low == (x % UInt16) + y
      high == (x \div UInt16) + (low \div UInt16)
  IN  (high % UInt16) * UInt16 + (low % UInt16)

\* x + y does not fit uint32_t
WrapsUInt32(x, y) ==
  (x \div UInt16) + (((x % UInt16) + y) \div UInt16) >= UInt16

\* the loop test with <= for <
GLoopRuns_inclusive == gl_has_previous /\ gl_gap_time <= gl_seconds_in_day

\* if (has_previous_snapshot_) ... while (gap_time < snapshot.seconds_in_day)
GLoopRuns == gl_has_previous /\ gl_gap_time < gl_seconds_in_day

\* ProcessSingleSnapshot(snapshot) is entered:
\* uint32_t gap_time = last_processed_time_ + snapshot_interval
GLoopEnter(t) ==
  /\ gl_pc \in {"idle", "returned"}
  /\ gl_seconds_in_day' = t
  /\ IF gl_has_previous
       THEN /\ gl_gap_time' = AddUInt32(gl_last_time, snapshot_interval)
            /\ gl_wrapped' = WrapsUInt32(gl_last_time, snapshot_interval)
       ELSE /\ UNCHANGED gl_gap_time
            /\ gl_wrapped' = FALSE
  /\ gl_passes' = 0
  /\ gl_pc' = "loop"
  /\ UNCHANGED <<gl_has_previous, gl_last_time>>
  /\ UNCHANGED notGL

\* one pass of the loop: gap_time += snapshot_interval
GLoopPass ==
  /\ gl_pc = "loop"
  /\ GLoopRuns
  /\ gl_gap_time' = AddUInt32(gl_gap_time, snapshot_interval)
  /\ gl_wrapped' = (gl_wrapped \/ WrapsUInt32(gl_gap_time, snapshot_interval))
  /\ gl_passes' = gl_passes + 1
  /\ UNCHANGED <<gl_has_previous, gl_last_time, gl_seconds_in_day, gl_pc>>
  /\ UNCHANGED notGL

\* the loop is left, the record is processed and becomes the baseline
GLoopReturn ==
  /\ gl_pc = "loop"
  /\ ~GLoopRuns
  /\ gl_has_previous' = TRUE
  /\ gl_last_time' = gl_seconds_in_day
  /\ gl_pc' = "returned"
  /\ UNCHANGED <<gl_seconds_in_day, gl_gap_time, gl_passes, gl_wrapped>>
  /\ UNCHANGED notGL

\* a TechnicalAnalysis that has processed nothing
GLInit ==
  /\ gl_has_previous = FALSE
  /\ gl_last_time = 0
  /\ gl_seconds_in_day = 0
  /\ gl_gap_time = 0
  /\ gl_passes = 0
  /\ gl_wrapped = FALSE
  /\ gl_pc = "idle"

GLNext ==
  \/ \E t \in RecordTimes : GLoopEnter(t)
  \/ GLoopPass
  \/ GLoopReturn

----------------------------------------------------------------------------
(* misc::Affinity on Linux: pin_to_cores / pin_thread_cores called by two  *)
(* threads                                                                 *)

\* the calling threads
AffinityCallers == {1, 2}

\* largest core id in a core list, and the longest core list
MaxCoreId == 2
MaxCoreList == 2

CoreLists == UNION { [1..n -> 0..MaxCoreId] : n \in 0..MaxCoreList }

\* the cores named by a core list
CoreSet(cores) == { cores[i] : i \in 1..Len(cores) }

\* core_count()
core_count == IF af_hardware > 0 THEN af_hardware ELSE 1

\* validate_cores(cores)
validate_cores(cores) ==
  /\ cores # << >>
  /\ \A i \in 1..Len(cores) : cores[i] < core_count

\* if (!validate_cores(cores)) return false;
ValidateCores(th) ==
  /\ af_pc[th] = "validate"
  /\ IF validate_cores(af_cores[th])
       THEN /\ af_pc' = [af_pc EXCEPT ![th] = "CPU_ZERO"]
            /\ UNCHANGED af_return
       ELSE /\ af_pc' = [af_pc EXCEPT ![th] = "returned"]
            /\ af_return' = [af_return EXCEPT ![th] = FALSE]
  /\ UNCHANGED <<af_hardware, af_cores, cpuset, af_index, af_affinity>>
  /\ UNCHANGED notAF

\* make_cpuset: CPU_ZERO(&cpuset) on the one static cpuset
CpuZero(th) ==
  /\ af_pc[th] = "CPU_ZERO"
  /\ cpuset' = {}
  /\ af_pc' = [af_pc EXCEPT ![th] = "CPU_SET"]
  /\ UNCHANGED <<af_hardware, af_cores, af_index, af_affinity, af_return>>
  /\ UNCHANGED notAF

\* make_cpuset: one pass of "for (unsigned int core : cores) CPU_SET(core, &cpuset)"
CpuSet(th) ==
  /\ af_pc[th] = "CPU_SET"
  /\ af_index[th] < Len(af_cores[th])
  /\ cpuset' = cpuset \cup { af_cores[th][af_index[th] + 1] }
  /\ af_index' = [af_index EXCEPT ![th] = @ + 1]
  /\ UNCHANGED <<af_hardware, af_cores, af_affinity, af_return, af_pc>>
  /\ UNCHANGED notAF

\* make_cpuset: return &cpuset
ReturnCpuset(th) ==
  /\ af_pc[th] = "CPU_SET"
  /\ af_index[th] = Len(af_cores[th])
  /\ af_pc' = [af_pc EXCEPT ![th] = "setaffinity"]
  /\ UNCHANGED <<af_hardware, af_cores, cpuset, af_index, af_affinity, af_return>>
  /\ UNCHANGED notAF

\* pthread_setaffinity_np(thread, sizeof(cpu_set_t), &cpuset) == 0: the set
\* the pointer leads to is applied; the kernel refuses an empty set
SetAffinity(th) ==
  /\ af_pc[th] = "setaffinity"
  /\ IF cpuset = {}
       THEN /\ af_return' = [af_return EXCEPT ![th] = FALSE]
            /\ UNCHANGED af_affinity
       ELSE /\ af_return' = [af_return EXCEPT ![th] = TRUE]
            /\ af_affinity' = [af_affinity EXCEPT ![th] = cpuset]
  /\ af_pc' = [af_pc EXCEPT ![th] = "returned"]
  /\ UNCHANGED <<af_hardware, af_cores, cpuset, af_index>>
  /\ UNCHANGED notAF

\* no thread is in a call
AFInit ==
  /\ af_hardware = 0
  /\ af_cores = [th \in AffinityCallers |-> << >>]
  /\ cpuset = {}
  /\ af_index = [th \in AffinityCallers |-> 0]
  /\ af_affinity = [th \in AffinityCallers |-> {}]
  /\ af_return = [th \in AffinityCallers |-> "none"]
  /\ af_pc = [th \in AffinityCallers |-> "returned"]

\* each of the two threads is at the start of a call with a core list
AFInitCalls ==
  /\ af_hardware \in HardwareConcurrencies
  /\ af_cores \in [AffinityCallers -> CoreLists]
  /\ cpuset = {}
  /\ af_index = [th \in AffinityCallers |-> 0]
  /\ af_affinity = [th \in AffinityCallers |-> {}]
  /\ af_return = [th \in AffinityCallers |-> "none"]
  /\ af_pc = [th \in AffinityCallers |-> "validate"]

AFNext ==
  \/ \E th \in AffinityCallers : ValidateCores(th)
  \/ \E th \in AffinityCallers : CpuZero(th)
  \/ \E th \in AffinityCallers : CpuSet(th)
  \/ \E th \in AffinityCallers : ReturnCpuset(th)
  \/ \E th \in AffinityCallers : SetAffinity(th)

----------------------------------------------------------------------------
Init == DQInit /\ TAInit /\ RDInit /\ PSInit /\ PBInit /\ DZInit /\ PAInit /\ DRVInit /\ GLInit /\ AFInit

\* a block of absolute records is to be encoded and decoded
InitCodec == DQInit /\ TAInit /\ RDInitBlock /\ PSInit /\ PBInit /\ DZInit /\ PAInit /\ DRVInit /\ GLInit /\ AFInit

SpecDQ == Init /\ [][DQNext]_vars

SpecDQCalls == Init /\ [][DQCallsNext]_vars

SpecTA == Init /\ [][TANext]_vars

SpecTAGap == Init /\ [][TAGapNext]_vars

SpecCodec == InitCodec /\ [][RDNext]_vars

SpecParser == Init /\ [][PSNext]_vars

\* the two bar builders, each on its own: TechnicalAnalysisCore fed snapshots
\* while the Parser has done nothing, or the Parser fed decoded records while
\* TechnicalAnalysisCore has done nothing
BarsNext ==
  \/ PSInit /\ TANext
  \/ TAInit /\ PSNext

SpecBars == Init /\ [][BarsNext]_vars

\* a byte vector is to be parsed
InitBytes == DQInit /\ TAInit /\ RDInit /\ PSInit /\ PBInitBytes /\ DZInit /\ PAInit /\ DRVInit /\ GLInit /\ AFInit

SpecParseBinaryData == InitBytes /\ [][PBNext]_vars

\* a file is to be decompressed
InitFile == DQInit /\ TAInit /\ RDInit /\ PSInit /\ PBInit /\ DZInitFile /\ PAInit /\ DRVInit /\ GLInit /\ AFInit

SpecDecompressFile == InitFile /\ [][DZNext]_vars

\* an asset's month folders, or a single file, are to be parsed
InitAsset ==
  DQInit /\ TAInit /\ RDInit /\ PSInit /\ PBInit /\ DZInit /\ PAInitAsset /\ DRVInit /\ GLInit /\ AFInit

SpecParseAsset == InitAsset /\ [][PANext]_vars

\* main is started on a stock_info_map
InitDriver ==
  DQInit /\ TAInit /\ RDInit /\ PSInit /\ PBInit /\ DZInit /\ PAInit /\ DRVInitAssets /\ GLInit /\ AFInit

SpecDriver == InitDriver /\ [][DRVNext]_vars

\* main keeps running, and every launched task runs to its end
SpecDriverFair ==
  /\ InitDriver
  /\ [][DRVNext]_vars
  /\ WF_vars(MainStep)
  /\ \A a \in 1..MaxAssets : WF_vars(a \in stock_info_map /\ ProcessAsset(a))

SpecGapLoop == Init /\ [][GLNext]_vars

\* the thread inside ProcessSingleSnapshot keeps running
SpecGapLoopFair ==
  /\ Init
  /\ [][GLNext]_vars
  /\ WF_vars(GLoopPass)
  /\ WF_vars(GLoopReturn)

\* two threads call pin_to_cores or pin_thread_cores at the same time
InitAffinity ==
  DQInit /\ TAInit /\ RDInit /\ PSInit /\ PBInit /\ DZInit /\ PAInit /\ DRVInit /\ GLInit /\ AFInitCalls

SpecAffinity == InitAffinity /\ [][AFNext]_vars

----------------------------------------------------------------------------
(* Claims on DQueue *)

\* the last n elements of a sequence
LastN(s, n) == SubSeq(s, Len(s) - n + 1, Len(s))

\* C1: starting from an empty DQueue, after N + k calls to push_back (k >= 0)
\* and no other mutating call, span() read as head followed by tail is exactly
\* the N most recently pushed values, in push order.
C1_SpanIsLastNPushes ==
  (only_push_back /\ Len(pushed) >= N)
    => span.head \o span.tail = LastN(pushed, N)

\* C1 witness: more than N pushes were made and the view is split in two
C1_Witness ==
  /\ only_push_back
  /\ Len(pushed) = N + 2
  /\ span.tail # << >>
  /\ span.head \o span.tail = LastN(pushed, N)
  /\ \E i \in 1..(N - 1) : LastN(pushed, N)[i] # LastN(pushed, N)[i + 1]

\* C2: in every state reached by push_back, push_front, pop_front and pop_back
\* (pops only when size > 0), 0 <= size() <= N and full() holds exactly when
\* size() = N.
C2_SizeWithinCapacity ==
  /\ size >= 0
  /\ size <= N
  /\ full <=> (size = N)

\* C2 witness: a full window that was pushed into again, from both ends,
\* and popped
C2_Witness ==
  /\ full
  /\ ~only_push_back
  /\ dq_calls > N + 2

----------------------------------------------------------------------------
(* Claims on TechnicalAnalysis *)

\* index in continuous_snapshots_ of the last real (not synthetic) entry at or
\* before position i; 0 when there is none
RECURSIVE LastRealAt(_)
LastRealAt(i) ==
  IF i = 0 THEN 0 ELSE IF ~is_gap[i] THEN i ELSE LastRealAt(i - 1)

\* the step in which ProcessSingleSnapshot processes its argument and returns
ReturnsFromCall == ta_pc = "gap_loop" /\ ta_pc' = "idle"

\* C3: when ProcessSingleSnapshot receives a record g > 0 seconds after
\* last_processed_time_, the synthetic snapshots it has emitted when it comes to
\* the record itself are exactly those at last_processed_time_ + 3, + 6, ...
\* strictly below the record's time (2 for g = 9, none for g <= 3); they follow
\* the previous real snapshot in continuous_snapshots_ and the incoming record
\* is appended right after them.
C3_GapFilledOnGrid ==
  [][ (/\ ReturnsFromCall
       /\ has_previous_snapshot_
       /\ snapshot.seconds_in_day > last_processed_time_)
      => LET g == snapshot.seconds_in_day - last_processed_time_
             n == Len(continuous_snapshots_)
             k == LastRealAt(n)
             m == n - k
         IN  /\ k >= 1
             /\ continuous_snapshots_[k] = last_snapshot_
             /\ m = (g - 1) \div 3
             /\ (g = 9) => (m = 2)
             /\ (g <= 3) => (m = 0)
             /\ \A j \in 1..m :
                  /\ continuous_snapshots_[k + j].seconds_in_day
                       = last_processed_time_ + 3 * j
                  /\ continuous_snapshots_[k + j].seconds_in_day
                       < snapshot.seconds_in_day
             /\ continuous_snapshots_' = Append(continuous_snapshots_, snapshot)
             /\ is_gap' = Append(is_gap, FALSE)
    ]_vars

\* C3 witness: a 9-second gap was filled: real, synthetic, synthetic, real at
\* t, t + 3, t + 6, t + 9
C3_Witness ==
  /\ ta_pc = "idle"
  /\ \E i \in 1..(Len(continuous_snapshots_) - 3) :
       /\ ~is_gap[i] /\ is_gap[i + 1] /\ is_gap[i + 2] /\ ~is_gap[i + 3]
       /\ \A j \in 1..3 :
            continuous_snapshots_[i + j].seconds_in_day
              = continuous_snapshots_[i].seconds_in_day + 3 * j

\* C4: when the incoming record's seconds_in_day is lower than
\* last_processed_time_, no synthetic snapshot is emitted, only the incoming
\* record is appended, and it becomes the baseline (last_snapshot_ and
\* last_processed_time_).
C4_BackwardTimeStartsAfresh ==
  [][ (/\ ta_pc = "gap_loop"
       /\ has_previous_snapshot_
       /\ snapshot.seconds_in_day < last_processed_time_)
      => /\ ~is_gap[Len(is_gap)]
         /\ continuous_snapshots_[Len(continuous_snapshots_)] = last_snapshot_
         /\ ta_pc' = "idle"
         /\ continuous_snapshots_' = Append(continuous_snapshots_, snapshot)
         /\ is_gap' = Append(is_gap, FALSE)
         /\ last_snapshot_' = snapshot
         /\ last_processed_time_' = snapshot.seconds_in_day
    ]_vars

\* C4 witness: two consecutive real entries, the later at a lower time, have
\* been processed and the later one is the baseline
C4_Witness ==
  /\ ta_pc = "idle"
  /\ Len(continuous_snapshots_) >= 2
  /\ LET n == Len(continuous_snapshots_)
     IN  /\ ~is_gap[n - 1] /\ ~is_gap[n]
         /\ continuous_snapshots_[n].seconds_in_day
              < continuous_snapshots_[n - 1].seconds_in_day
         /\ last_processed_time_ = continuous_snapshots_[n].seconds_in_day
         /\ last_snapshot_ = continuous_snapshots_[n]

\* entry i of continuous_snapshots_ opens a run: it is the first entry, or its
\* (hour, minute) differs from that of the entry before it
RunStart(i) ==
  \/ i = 1
  \/ continuous_snapshots_[i].hour # continuous_snapshots_[i - 1].hour
  \/ continuous_snapshots_[i].minute # continuous_snapshots_[i - 1].minute

\* the number of the run entry i belongs to
RunOf(i) == Cardinality({ j \in 1..i : RunStart(j) })

\* the entries of run r, a range of consecutive positions
RunMembers(r) == { i \in 1..Len(continuous_snapshots_) : RunOf(i) = r }

SetMin(S) == CHOOSE x \in S : \A y \in S : x <= y
SetMax(S) == CHOOSE x \in S : \A y \in S : x >= y

RECURSIVE SumOver(_, _)
SumOver(S, field) ==
  IF S = {} THEN 0
  ELSE LET i == CHOOSE x \in S : TRUE
       IN  field[i] + SumOver(S \ {i}, field)

SnapshotPrices == [i \in 1..Len(continuous_snapshots_) |-> continuous_snapshots_[i].latest_price_tick]
SnapshotVolumes == [i \in 1..Len(continuous_snapshots_) |-> continuous_snapshots_[i].volume]
SnapshotTurnovers == [i \in 1..Len(continuous_snapshots_) |-> continuous_snapshots_[i].turnover]

\* bar aggregates the entries at the positions in S
BarAggregates(bar, S) ==
  /\ bar.open = SnapshotPrices[SetMin(S)]
  /\ bar.close = SnapshotPrices[SetMax(S)]
  /\ bar.high = SetMax({ SnapshotPrices[i] : i \in S })
  /\ bar.low = SetMin({ SnapshotPrices[i] : i \in S })
  /\ bar.volume = 100 * SumOver(S, SnapshotVolumes)
  /\ bar.turnover = SumOver(S, SnapshotTurnovers)

InternalStep ==
  /\ Len(continuous_snapshots_') = Len(continuous_snapshots_) + 1
  /\ ta_pc' # "aborted"

\* C7: in ProcessSnapshotInternal the open bar is appended to minute_bars_
\* exactly when the snapshot's (hour, minute) differs from the open bar's; it is
\* appended once, as it was before the new bar is started, and the new bar has
\* open = high = low = close = the snapshot's price, the snapshot's volume
\* (times 100) and its turnover. A snapshot of the same (hour, minute) appends
\* nothing.
C7_BarFinalizedOnMinuteChange ==
  [][ InternalStep
      => LET snap == continuous_snapshots_'[Len(continuous_snapshots_')]
             differs == \/ snap.hour # current_bar_.hour
                        \/ snap.minute # current_bar_.minute
         IN  IF has_current_bar_ /\ differs
               THEN /\ minute_bars_' = Append(minute_bars_, current_bar_)
                    /\ has_current_bar_'
                    /\ current_bar_'.hour = snap.hour
                    /\ current_bar_'.minute = snap.minute
                    /\ current_bar_'.open = snap.latest_price_tick
                    /\ current_bar_'.high = snap.latest_price_tick
                    /\ current_bar_'.low = snap.latest_price_tick
                    /\ current_bar_'.close = snap.latest_price_tick
                    /\ current_bar_'.volume = 100 * snap.volume
                    /\ current_bar_'.turnover = snap.turnover
               ELSE minute_bars_' = minute_bars_
    ]_vars

\* C7 witness: a bar was finalized by a snapshot of the same minute but another
\* hour, and the open bar is the one seeded from that snapshot
C7_Witness ==
  /\ ta_pc = "idle"
  /\ has_current_bar_
  /\ Len(minute_bars_) >= 1
  /\ minute_bars_[Len(minute_bars_)].minute = current_bar_.minute
  /\ minute_bars_[Len(minute_bars_)].hour # current_bar_.hour
  /\ current_bar_.volume > 0
  /\ current_bar_.volume
       = 100 * continuous_snapshots_[Len(continuous_snapshots_)].volume

\* C10: every synthetic snapshot has volume = 0, turnover = 0 and
\* trade_count = 0; its hour, minute and second are those of its seconds_in_day;
\* all its other fields are those of the last real snapshot before it.
C10_SyntheticRepeatsLastReal ==
  \A i \in 1..Len(continuous_snapshots_) :
    is_gap[i] =>
      LET syn == continuous_snapshots_[i]
          t == syn.seconds_in_day
          k == LastRealAt(i)
      IN  /\ k >= 1
          /\ syn.volume = 0 /\ syn.turnover = 0 /\ syn.trade_count = 0
          /\ syn.hour = t \div 3600
          /\ syn.minute = (t % 3600) \div 60
          /\ syn.second = t % 60
          /\ syn = [continuous_snapshots_[k] EXCEPT
                      !.seconds_in_day = t,
                      !.hour = syn.hour, !.minute = syn.minute,
                      !.second = syn.second,
                      !.volume = 0, !.turnover = 0, !.trade_count = 0]

\* C10 witness: a synthetic snapshot in another minute than the real snapshot
\* it repeats, which had trades, volume and turnover
C10_Witness ==
  \E i \in 1..Len(continuous_snapshots_) :
    /\ is_gap[i]
    /\ LastRealAt(i) >= 1
    /\ LET real == continuous_snapshots_[LastRealAt(i)]
       IN  /\ real.trade_count > 0 /\ real.volume > 0 /\ real.turnover > 0
           /\ real.minute # continuous_snapshots_[i].minute
           /\ real.latest_price_tick = continuous_snapshots_[i].latest_price_tick
           /\ real.bid_price_ticks = continuous_snapshots_[i].bid_price_ticks

----------------------------------------------------------------------------
(* Claims on the bar tables of TechnicalAnalysisCore and of the Parser *)

\* C8: a bar that has been finalized never changes. minute_bars_ changes only
\* by one bar being appended at its end; in bar_1m_buffer_ every entry but the
\* last stays as it is and no entry is ever removed.
C8_FinalizedBarsNeverChange ==
  [][ /\ Len(minute_bars_') >= Len(minute_bars_)
      /\ Len(minute_bars_') <= Len(minute_bars_) + 1
      /\ \A i \in 1..Len(minute_bars_) : minute_bars_'[i] = minute_bars_[i]
      /\ Len(bar_1m_buffer_') >= Len(bar_1m_buffer_)
      /\ Len(bar_1m_buffer_') <= Len(bar_1m_buffer_) + 1
      /\ \A i \in 1..(Len(bar_1m_buffer_) - 1) :
           bar_1m_buffer_'[i] = bar_1m_buffer_[i]
    ]_vars

\* C8 witness: two bars have been finalized one after the other, and the open
\* bar has since taken in a snapshot with volume
C8_Witness ==
  /\ Len(minute_bars_) >= 2
  /\ minute_bars_[1] # minute_bars_[2]
  /\ has_current_bar_
  /\ current_bar_.volume > 0

\* a <= b on fractions with positive denominators
FracLeq(a, b) == ~FracLess(b, a)

\* C9: the bar under construction and every bar of the bar table have
\* low <= open <= high and low <= close <= high, in TechnicalAnalysisCore
\* (current_bar_ while has_current_bar_, and minute_bars_) and in the Parser
\* (bar_1m_buffer_, whose last entry is the bar under construction).
C9_BarsAreOrdered ==
  /\ has_current_bar_ =>
       /\ current_bar_.low <= current_bar_.open
       /\ current_bar_.open <= current_bar_.high
       /\ current_bar_.low <= current_bar_.close
       /\ current_bar_.close <= current_bar_.high
  /\ \A i \in 1..Len(minute_bars_) :
       /\ minute_bars_[i].low <= minute_bars_[i].open
       /\ minute_bars_[i].open <= minute_bars_[i].high
       /\ minute_bars_[i].low <= minute_bars_[i].close
       /\ minute_bars_[i].close <= minute_bars_[i].high
  /\ \A i \in 1..Len(bar_1m_buffer_) :
       /\ FracLeq(bar_1m_buffer_[i].low, bar_1m_buffer_[i].open)
       /\ FracLeq(bar_1m_buffer_[i].open, bar_1m_buffer_[i].high)
       /\ FracLeq(bar_1m_buffer_[i].low, bar_1m_buffer_[i].close)
       /\ FracLeq(bar_1m_buffer_[i].close, bar_1m_buffer_[i].high)

\* C9 witness: the Parser's open bar was updated by a record below its open
\* price after an earlier bar was pushed
C9_Witness ==
  /\ Len(bar_1m_buffer_) >= 2
  /\ LET bar == bar_1m_buffer_[Len(bar_1m_buffer_)]
     IN  /\ FracLess(bar.low, bar.open)
         /\ bar.close = bar.low
         /\ bar.high = bar.open

----------------------------------------------------------------------------
(* Claims on the delta codec *)

\* the delta-coded fields of a record
DeltaFields(rec) ==
  <<rec.day, rec.time_s, rec.latest_price_tick, rec.bid_price_ticks,
    rec.ask_price_ticks>>

\* C6: for every non-empty block, ReverseDifferentialEncoding applied to the
\* differential encoding of the block (record 0 kept, record i replaced by
\* record i - record i-1 on day, time_s, latest_price_tick and the 5 bid and
\* 5 ask price ticks, in the fields' fixed-width arithmetic) returns the
\* original block on those fields.
C6_RoundTrip ==
  rd_pc = "round_trip"
    => /\ Len(rd_records) = Len(rd_original)
       /\ \A i \in 1..Len(rd_original) :
            DeltaFields(rd_records[i]) = DeltaFields(rd_original[i])

\* C6 witness: a block of three records went round, in which day, time_s and
\* the prices fall as well as rise, so that differences wrap in their types
C6_Witness ==
  /\ rd_pc = "round_trip"
  /\ Len(rd_original) = 3
  /\ rd_original[2].day < rd_original[1].day
  /\ rd_original[3].time_s < rd_original[2].time_s
  /\ rd_original[2].latest_price_tick - rd_original[1].latest_price_tick > 32767
  /\ rd_original[3].latest_price_tick < rd_original[2].latest_price_tick
  /\ rd_original[2].bid_price_ticks # rd_original[1].bid_price_ticks
  /\ rd_records = rd_original

----------------------------------------------------------------------------
(* Claims on gap filling across a day boundary and on the snapshot table *)

\* the step appends a synthetic snapshot to continuous_snapshots_
AppendsSynthetic ==
  /\ Len(continuous_snapshots_') = Len(continuous_snapshots_) + 1
  /\ is_gap'[Len(is_gap')]

\* C11: while a record is processed whose day field is lower than the day field
\* of the previous record, no synthetic snapshot is emitted, also when the
\* record's seconds_in_day is more than 3 seconds after last_processed_time_.
C11_NoGapFillWhenDayDecreases ==
  [][ (/\ ta_pc = "gap_loop"
       /\ has_previous_snapshot_
       /\ snapshot.day < last_snapshot_.day)
      => ~AppendsSynthetic
    ]_vars

\* index in continuous_snapshots_ of the first real entry after position i;
\* 0 when there is none
RECURSIVE NextRealAfter(_)
NextRealAfter(i) ==
  IF i >= Len(continuous_snapshots_)
    THEN 0
    ELSE IF ~is_gap[i + 1] THEN i + 1 ELSE NextRealAfter(i + 1)

\* C12: two consecutive entries of continuous_snapshots_ have non-decreasing
\* seconds_in_day unless the later one is a real record whose time is lower
\* than the time of the real record before it; every synthetic snapshot is
\* later than the entry before it and earlier than the real record that
\* follows it (the record being processed, while the gap loop runs).
C12_TimestampsNonDecreasing ==
  /\ \A i \in 1..(Len(continuous_snapshots_) - 1) :
       \/ continuous_snapshots_[i].seconds_in_day
            <= continuous_snapshots_[i + 1].seconds_in_day
       \/ /\ ~is_gap[i + 1]
          /\ LastRealAt(i) >= 1
          /\ continuous_snapshots_[i + 1].seconds_in_day
               < continuous_snapshots_[LastRealAt(i)].seconds_in_day
  /\ \A i \in 1..Len(continuous_snapshots_) :
       is_gap[i] =>
         /\ i > 1
         /\ continuous_snapshots_[i - 1].seconds_in_day
              < continuous_snapshots_[i].seconds_in_day
         /\ IF NextRealAfter(i) >= 1
              THEN continuous_snapshots_[i].seconds_in_day
                     < continuous_snapshots_[NextRealAfter(i)].seconds_in_day
              ELSE /\ ta_pc = "gap_loop"
                   /\ continuous_snapshots_[i].seconds_in_day
                        < snapshot.seconds_in_day

\* C12 witness: the table holds a filled gap (real, synthetic, real at rising
\* times) and, after it, a real record at a lower time than the entry before it
C12_Witness ==
  /\ ta_pc = "idle"
  /\ \E i \in 2..(Len(continuous_snapshots_) - 2) :
       /\ is_gap[i]
       /\ NextRealAfter(i) >= 1
       /\ LET j == NextRealAfter(i)
          IN  /\ j + 1 <= Len(continuous_snapshots_)
              /\ ~is_gap[j + 1]
              /\ continuous_snapshots_[j + 1].seconds_in_day
                   < continuous_snapshots_[j].seconds_in_day

\* minute of the day of a snapshot or a bar
MinuteOf(x) == x.hour * 60 + x.minute

\* a record is being processed that lies later on the same day than the
\* previous record
InForwardCall ==
  /\ ta_pc = "gap_loop"
  /\ has_previous_snapshot_
  /\ snapshot.day = last_snapshot_.day
  /\ snapshot.seconds_in_day > last_processed_time_

\* C13: while a record is processed that lies later in the session than the
\* previous one, every bar appended to minute_bars_ is followed by a bar of the
\* next (hour, minute), and when the call returns the table ends with the bar
\* of the previous record's minute followed by exactly one bar for each whole
\* minute skipped, in order, each with open = high = low = close = the last
\* real price and volume = turnover = 0; the open bar is the record's minute.
C13_SkippedMinutesGetBars ==
  [][ InForwardCall
      => /\ minute_bars_' # minute_bars_
              => /\ minute_bars_' = Append(minute_bars_, current_bar_)
                 /\ MinuteOf(current_bar_') = MinuteOf(current_bar_) + 1
         /\ ReturnsFromCall
              => LET n == Len(minute_bars_')
                     first == MinuteOf(last_snapshot_)
                     k == MinuteOf(snapshot) - first
                 IN  /\ k >= 0
                     /\ n >= k
                     /\ MinuteOf(current_bar_') = MinuteOf(snapshot)
                     /\ \A j \in 0..(k - 1) :
                          MinuteOf(minute_bars_'[n - k + 1 + j]) = first + j
                     /\ \A j \in 1..(k - 1) :
                          LET bar == minute_bars_'[n - k + 1 + j]
                          IN  /\ bar.open = last_snapshot_.latest_price_tick
                              /\ bar.high = last_snapshot_.latest_price_tick
                              /\ bar.low = last_snapshot_.latest_price_tick
                              /\ bar.close = last_snapshot_.latest_price_tick
                              /\ bar.volume = 0
                              /\ bar.turnover = 0
    ]_vars

\* C13 witness: a record with volume at 00:00:57 was followed by a record at
\* 00:03:10: the table holds the bar of 00:00 and the bars of 00:01 and 00:02
C13_Witness ==
  /\ ta_pc = "idle"
  /\ Len(minute_bars_) = 3
  /\ minute_bars_[1].volume > 0
  /\ MinuteOf(minute_bars_[1]) = 0
  /\ MinuteOf(minute_bars_[2]) = 1
  /\ MinuteOf(minute_bars_[3]) = 2
  /\ minute_bars_[2].volume = 0 /\ minute_bars_[3].volume = 0
  /\ minute_bars_[3].close = minute_bars_[1].close
  /\ MinuteOf(current_bar_) = 3
  /\ current_bar_.close # minute_bars_[1].close
  /\ current_bar_.volume > 0

----------------------------------------------------------------------------
(* Claims on the VWAP guards *)

\* equality of two fractions with positive denominators
FracEq(a, b) == a.num * b.den = b.num * a.den

\* C15: the i-th value of snapshot_vwaps_ is the one pushed for the i-th entry
\* of continuous_snapshots_ (fewer than BLen entries): for an entry with
\* volume > 0 it is turnover / (volume * 100); for an entry with volume = 0 that
\* has a predecessor it is the value pushed for the entry before it.
C15_SnapshotVwapGuard ==
  LET vwaps == snapshot_bufs.snapshot_vwaps_
  IN  /\ Len(vwaps) <= Len(continuous_snapshots_)
      /\ \A i \in 1..Len(vwaps) :
           LET snap == continuous_snapshots_[i]
           IN  IF snap.volume > 0
                 THEN FracEq(vwaps[i], Frac(snap.turnover, snap.volume * 100))
                 ELSE i > 1 => vwaps[i] = vwaps[i - 1]

\* C15 witness: a record with volume, a synthetic snapshot and a record with
\* volume 0 after it, both carrying the first record's VWAP, which is not 0
C15_Witness ==
  LET vwaps == snapshot_bufs.snapshot_vwaps_
  IN  /\ ta_pc = "idle"
      /\ \E i \in 1..(Len(vwaps) - 2) :
           /\ continuous_snapshots_[i].volume > 0
           /\ is_gap[i + 1]
           /\ ~is_gap[i + 2]
           /\ continuous_snapshots_[i + 2].volume = 0
           /\ vwaps[i].num > 0
           /\ vwaps[i + 2] = vwaps[i]

\* C16: the i-th value of bar_vwaps_ is the one pushed for the i-th bar of
\* minute_bars_ (fewer than BLen bars): 0 for a bar with volume = 0, whatever
\* the value pushed for the bar before it, and turnover / volume for a bar with
\* positive volume.
C16_BarVwapGuard ==
  LET vwaps == bar_bufs.bar_vwaps_
  IN  /\ Len(vwaps) = Len(minute_bars_)
      /\ \A i \in 1..Len(vwaps) :
           LET bar == minute_bars_[i]
           IN  IF bar.volume > 0
                 THEN FracEq(vwaps[i], Frac(bar.turnover, bar.volume))
                 ELSE vwaps[i].num = 0

\* C16 witness: a bar with volume and a VWAP other than 0 was finalized, and
\* after it a bar made of a real record with volume 0
C16_Witness ==
  /\ Len(minute_bars_) >= 2
  /\ \E i \in 1..(Len(minute_bars_) - 1) :
       /\ minute_bars_[i].volume > 0
       /\ bar_bufs.bar_vwaps_[i].num > 0
       /\ minute_bars_[i + 1].volume = 0
       /\ bar_bufs.bar_vwaps_[i + 1].num = 0
       /\ \E k \in 1..Len(continuous_snapshots_) :
            /\ ~is_gap[k]
            /\ continuous_snapshots_[k].volume = 0
            /\ continuous_snapshots_[k].minute = minute_bars_[i + 1].minute

----------------------------------------------------------------------------
(* Claims on DQueue: the complementary end, the reference sequence, views *)

\* the logical content of the window, front to back
Content == [i \in 1..size_ |-> data_[wrap_add(start_, i - 1)]]

\* C17: push_front(v) on a full DQueue drops the newest (back) element:
\* afterwards size() is still N, front() is v, and the logical content is v
\* followed by the previous content without its last element.
C17_PushFrontOnFullDropsBack ==
  [][ \A v \in Values :
        (full /\ push_front(v))
          => /\ size' = N
             /\ front' = v
             /\ Content' = <<v>> \o SubSeq(Content, 1, N - 1)
    ]_vars

\* C17 witness: a full window whose front is the value last given to
\* push_front and differs from the element behind it, after more calls than
\* fill the window
C17_Witness ==
  /\ full
  /\ ~only_push_back
  /\ dq_calls > N
  /\ front # Content[2]
  /\ back # front
  /\ reference[1] = front

\* C18: after any interleaving of push_back, push_front, pop_front and
\* pop_back (pops only when the window is not empty) the logical content read
\* front to back is that of the reference bounded sequence given the same
\* calls, and front() and back() are the reference's first and last elements.
C18_RefinesReferenceSequence ==
  /\ Content = reference
  /\ size = Len(reference)
  /\ size > 0 =>
       /\ front = Head(reference)
       /\ back = reference[Len(reference)]

\* C18 witness: after MaxDQCalls calls, not all of them push_back, the window
\* holds two elements that wrap past the physical end of the array and differ
C18_Witness ==
  /\ ~only_push_back
  /\ dq_calls = MaxDQCalls
  /\ size = 2
  /\ start_ = N - 1
  /\ front # back
  /\ Content = reference

\* a call of pop_front, pop_back, front or back on the empty window
EmptyCall ==
  \/ pop_front_on_empty
  \/ pop_back_on_empty
  \/ front_on_empty
  \/ back_on_empty

\* C19 as stated: every call of pop_front, pop_back, front or back on the empty
\* DQueue trips the assertion size_ > 0; none completes, and start_ and size_
\* are as before (size_ never wraps below 0).
C19_EmptyCallTripsAssertion ==
  [][ EmptyCall
      => /\ dq_pc' = "aborted"
         /\ start_' = start_
         /\ size_' = size_
    ]_vars

\* C19 amended: where assert() is compiled in, every call of pop_front,
\* pop_back, front or back on the empty DQueue trips the assertion and leaves
\* data_, start_ and size_ as they are; front and back leave start_ and size_
\* as they are in every build.
C19_EmptyCallTripsEnabledAssertion ==
  [][ /\ (EmptyCall /\ assertions' = "enabled")
           => /\ dq_pc' = "aborted"
              /\ start_' = start_
              /\ size_' = size_
              /\ data_' = data_
      /\ (front_on_empty \/ back_on_empty)
           => /\ start_' = start_
              /\ size_' = size_
    ]_vars

\* C19 witness: a window that was filled and emptied again, with start_ moved,
\* was popped once more and the assertion stopped the program
C19_Witness ==
  /\ dq_pc = "aborted"
  /\ assertions = "enabled"
  /\ size_ = 0
  /\ start_ # 0
  /\ dq_calls > 2

\* the logical elements first .. first + count - 1 (counted from 0) of the
\* reference sequence
LogicalRange(first, count) == SubSeq(reference, first + 1, first + count)

\* C20: in every reachable DQueue state, for every logical_start and length
\* with logical_start + length <= size(), subspan returns a head and a tail
\* whose concatenation is the logical elements logical_start ..
\* logical_start + length - 1 and whose sizes add up to length; the tail is
\* non-empty only when the range runs past the physical end of the array;
\* span() is subspan(0, size()) and last(k) is the k elements at the back.
C20_SubspanIsLogicalRange ==
  /\ \A logical_start \in 0..N : \A length \in 0..N :
       logical_start + length <= size =>
         LET view == subspan(logical_start, length)
         IN  /\ view.head \o view.tail = LogicalRange(logical_start, length)
             /\ Len(view.head) + Len(view.tail) = length
             /\ view.tail # << >> =>
                  /\ start_ + logical_start < N
                  /\ start_ + logical_start + length > N
  /\ span = subspan(0, size)
  /\ span.head \o span.tail = reference
  /\ \A k \in 0..size : last(k).head \o last(k).tail = LastN(reference, k)

\* C20 witness: after pushes at both ends and a pop, a proper sub-range of a
\* full window that starts after the front, ends before the back and is
\* returned in two segments with distinct elements
C20_Witness ==
  /\ size = N
  /\ ~only_push_back
  /\ dq_calls > N + 1
  /\ \E length \in 2..(N - 1) :
       /\ subspan(1, length).tail # << >>
       /\ subspan(1, length).head \o subspan(1, length).tail
            = LogicalRange(1, length)
       /\ subspan(1, length).head # subspan(1, length).tail
       /\ last(length).tail # << >>

----------------------------------------------------------------------------
(* Claims on what ReverseDifferentialEncoding changes and computes *)

\* the fields of a record that are stored absolute
NonDeltaFields(rec) ==
  <<rec.sync, rec.trade_count, rec.turnover, rec.volume, rec.bid_volumes,
    rec.ask_volumes, rec.direction>>

\* C21: ReverseDifferentialEncoding leaves record[0] entirely unchanged, leaves
\* the number of records unchanged, and leaves in every record the fields sync,
\* trade_count, turnover, volume, the 5 bid volumes, the 5 ask volumes and
\* direction unchanged; a block of 0 or 1 records is returned untouched.
C21_ReverseFrame ==
  [][ ReverseBlock =>
        /\ Len(rd_records') = Len(rd_records)
        /\ Len(rd_records) >= 1 => rd_records'[1] = rd_records[1]
        /\ \A i \in 1..Len(rd_records) :
             NonDeltaFields(rd_records'[i]) = NonDeltaFields(rd_records[i])
        /\ Len(rd_records) <= 1 => rd_records' = rd_records
    ]_vars

\* C21 witness: a block of three records was reversed; its delta-coded fields
\* changed in the second and third record, its other fields are non-zero in
\* the second record and as given everywhere
C21_Witness ==
  /\ rd_pc = "reversed"
  /\ Len(rd_original) = 3
  /\ rd_records[1] = rd_original[1]
  /\ DeltaFields(rd_records[2]) # DeltaFields(rd_original[2])
  /\ DeltaFields(rd_records[3]) # DeltaFields(rd_original[3])
  /\ rd_original[1].volume > 0 /\ rd_original[2].volume > 0
  /\ \A i \in 1..3 : NonDeltaFields(rd_records[i]) = NonDeltaFields(rd_original[i])

\* sum of f(records[1]) .. f(records[i])
RECURSIVE PrefixSum(_, _, _)
PrefixSum(f(_), records, i) ==
  IF i = 0 THEN 0 ELSE f(records[i]) + PrefixSum(f, records, i - 1)

DayOf(rec) == rec.day
TimeOf(rec) == rec.time_s
LatestOf(rec) == rec.latest_price_tick

\* C22: after ReverseDifferentialEncoding, for every index i and every
\* delta-coded field f, record[i].f is the sum of the input values record[0].f
\* .. record[i].f reduced to the field's width (uint8_t for day, uint16_t for
\* time_s, int16_t for the price ticks).
C22_ReverseIsPrefixSum ==
  [][ ReverseBlock =>
        \A i \in 1..Len(rd_records) :
          /\ rd_records'[i].day = ToUInt8(PrefixSum(DayOf, rd_records, i))
          /\ rd_records'[i].time_s = ToUInt16(PrefixSum(TimeOf, rd_records, i))
          /\ rd_records'[i].latest_price_tick
               = ToInt16(PrefixSum(LatestOf, rd_records, i))
          /\ \A j \in Levels :
               LET BidOf(rec) == rec.bid_price_ticks[j]
                   AskOf(rec) == rec.ask_price_ticks[j]
               IN  /\ rd_records'[i].bid_price_ticks[j]
                        = ToInt16(PrefixSum(BidOf, rd_records, i))
                   /\ rd_records'[i].ask_price_ticks[j]
                        = ToInt16(PrefixSum(AskOf, rd_records, i))
    ]_vars

\* C22 witness: three records were reversed whose day sum passes 2^8 twice, so
\* that the third day differs from the sum of the last two stored values
C22_Witness ==
  /\ rd_pc = "reversed"
  /\ Len(rd_original) = 3
  /\ PrefixSum(DayOf, rd_original, 3) >= 2 * UInt8
  /\ rd_records[3].day = ToUInt8(PrefixSum(DayOf, rd_original, 3))
  /\ rd_records[3].day # ToUInt8(rd_original[3].day + rd_original[2].day)
  /\ rd_records[3].time_s # ToUInt16(rd_original[3].time_s + rd_original[2].time_s)

----------------------------------------------------------------------------
(* Claims on Parser::ParseBinaryData *)

\* the bytes of the records of a vector, one record after the other
RECURSIVE BytesOf(_)
BytesOf(records) ==
  IF records = << >> THEN << >>
  ELSE records[1] \o BytesOf(Tail(records))

\* C24: ParseBinaryData fails (returns no record and reports the invalid size)
\* whenever the byte count is not an exact multiple of the record size; for a
\* byte count that is a positive multiple of the record size it returns exactly
\* len / record_size records whose bytes are the input bytes in order.
C24_ParseBinaryDataContract ==
  pb_pc = "returned" =>
    /\ Len(binary_data) % sizeof_TickRecord # 0
         => /\ pb_records = << >>
            /\ pb_cerr = "Invalid binary data size"
    /\ (Len(binary_data) > 0 /\ Len(binary_data) % sizeof_TickRecord = 0)
         => /\ Len(pb_records) * sizeof_TickRecord = Len(binary_data)
            /\ \A k \in 1..Len(pb_records) : Len(pb_records[k]) = sizeof_TickRecord
            /\ BytesOf(pb_records) = binary_data
            /\ pb_cerr = ""

\* C24 witness: three whole records were returned from bytes that differ
\* between the records
C24_Witness ==
  /\ pb_pc = "returned"
  /\ Len(binary_data) = 3 * sizeof_TickRecord
  /\ Len(pb_records) = 3
  /\ pb_records[1] # pb_records[2]
  /\ pb_records[2] # pb_records[3]
  /\ BytesOf(pb_records) = binary_data

\* C24 witness of the failure: more bytes than one record, not a whole number
\* of records, and nothing returned
C24_WitnessMalformed ==
  /\ pb_pc = "returned"
  /\ Len(binary_data) > sizeof_TickRecord
  /\ Len(binary_data) % sizeof_TickRecord # 0
  /\ pb_records = << >>

----------------------------------------------------------------------------
(* Claims on Parser::DecompressFile *)

\* what mz_uncompress answered to the i-th attempt
AttemptResult(i) == mz_uncompress(dz_file, dz_attempts[i]).result

\* C25: with an expected record count, DecompressFile first attempts one
\* decompression into a buffer of exactly expected_record_count * record_size
\* bytes; when that attempt fails it goes on with buffers of 8 times the
\* compressed size, doubled after each buffer-too-small result, until an attempt
\* succeeds or the buffer size exceeds 32 times the compressed size, and only
\* then reports failure.
C25_ExactThenDoublingFallback ==
  (dz_pc = "returned" /\ dz_file.openable /\ dz_record_count > 0) =>
    /\ Len(dz_attempts) >= 1
    /\ dz_attempts[1] = dz_record_count * sizeof_TickRecord
    /\ AttemptResult(1) # "MZ_OK"
         => /\ Len(dz_attempts) >= 2
            /\ dz_attempts[2] = 8 * dz_file.compressed_size
    /\ \A i \in 2..(Len(dz_attempts) - 1) :
         /\ AttemptResult(i) = "MZ_BUF_ERROR"
         /\ dz_attempts[i + 1] = 2 * dz_attempts[i]
    /\ dz_outcome = "ok" <=> AttemptResult(Len(dz_attempts)) = "MZ_OK"
    /\ dz_outcome = "decompression_failed"
         => \/ AttemptResult(Len(dz_attempts)) = "MZ_DATA_ERROR"
            \/ 2 * dz_attempts[Len(dz_attempts)] > 32 * dz_file.compressed_size

\* C26: DecompressFile reports two distinct error outcomes, one when the file
\* cannot be opened and one when no buffer size succeeds; from what it returns,
\* a caller can tell them apart from each other and from a successful result.
C26_DistinctErrorOutcomes ==
  dz_pc = "returned" =>
    /\ dz_outcome = "io_error"
         => dz_return # ReturnDecompressionFailed(<< >>, << >>).data
    /\ dz_outcome = "decompression_failed"
         => dz_return # ReturnOpenFailed.data
    /\ dz_outcome = "ok"
         => /\ dz_return # ReturnOpenFailed.data
            /\ dz_return # ReturnDecompressionFailed(<< >>, << >>).data

----------------------------------------------------------------------------
(* Claims on the month loop *)

\* the calls the loop made for month folder m, in order
CallsFor(m) ==
  LET OfMonth(entry) == entry[1] = m
      made == SelectSeq(pa_log, OfMonth)
  IN  [i \in 1..Len(made) |-> made[i][2]]

\* the call that stores the records, per entry point
StoringCall ==
  IF pa_entry = "ParseAsset" THEN "ConvertToSnapshot3sAndBar1m"
  ELSE IF pa_entry = "ParseAssetLifespan" THEN "insert"
  ELSE "WriteRecordsToText"

\* the calls of a month that is decoded and stored
CallsOfDecodedMonth ==
  <<"FindAssetFile", "DecompressFile", "ParseBinaryData",
    "ReverseDifferentialEncoding", StoringCall>>

IsPrefix(s, t) == Len(s) <= Len(t) /\ s = SubSeq(t, 1, Len(s))

\* the records as stored in the file of month folder m: what its stream holds
\* when the stream comes out of DecompressFile and is whole records
StoredOf(m) ==
  LET f == month_files[m]
      bytes == IF f.found
                 THEN DecompressFile(OverloadOf(pa_entry), f.file, f.record_count).data
                 ELSE << >>
  IN  IF Len(bytes) % sizeof_TickRecord = 0
        THEN [k \in 1..(Len(bytes) \div sizeof_TickRecord) |->
                FieldsOf(RecordBytesAt(bytes, k))]
        ELSE << >>

\* a block with every delta-coded field of record i replaced by the sum of that
\* field over records 1..i of the same block, in the field's type
AbsoluteOf(block) ==
  [i \in 1..Len(block) |->
     [block[i] EXCEPT
        !.day = ToUInt8(PrefixSum(DayOf, block, i)),
        !.time_s = ToUInt16(PrefixSum(TimeOf, block, i)),
        !.latest_price_tick = ToInt16(PrefixSum(LatestOf, block, i)),
        !.bid_price_ticks =
           [j \in Levels |->
              LET BidOf(rec) == rec.bid_price_ticks[j]
              IN  ToInt16(PrefixSum(BidOf, block, i))],
        !.ask_price_ticks =
           [j \in Levels |->
              LET AskOf(rec) == rec.ask_price_ticks[j]
              IN  ToInt16(PrefixSum(AskOf, block, i))]]]

\* the blocks of month folders 1..m, each made absolute on its own, one after
\* the other
RECURSIVE AbsoluteUpTo(_)
AbsoluteUpTo(m) ==
  IF m = 0 THEN << >> ELSE AbsoluteUpTo(m - 1) \o AbsoluteOf(StoredOf(m))

\* the prices a snapshot carries
PricesOf(rec) == <<rec.latest_price_tick, rec.bid_price_ticks, rec.ask_price_ticks>>

\* C23: for every month file that is decoded, ReverseDifferentialEncoding is
\* applied exactly once to that file's records, after ParseBinaryData and
\* before the records are converted or appended to the asset's tables; each
\* file's block is reversed on its own: its first record is taken as absolute
\* and nothing is carried over from the previous file's block.
C23_ReversedOncePerFile ==
  /\ \A m \in 1..Len(month_files) : IsPrefix(CallsFor(m), CallsOfDecodedMonth)
  /\ pa_pc = "sink"
       => /\ pa_records = AbsoluteOf(StoredOf(pa_month))
          /\ pa_records # << >> => pa_records[1] = StoredOf(pa_month)[1]
  /\ (pa_entry = "ParseAssetLifespan" /\ pa_pc # "done")
       => asset_records_buffer_ = AbsoluteUpTo(pa_month - 1)
  /\ (pa_entry = "ParseSingleFile" /\ pa_pc = "done")
       => text_records = AbsoluteOf(StoredOf(1))
  /\ (pa_entry = "ParseAsset" /\ pa_pc \in {"find", "decompress", "parse", "reverse"})
       => /\ Len(snapshot_3s_buffer_) = Len(AbsoluteUpTo(pa_month - 1))
          /\ \A i \in 1..Len(snapshot_3s_buffer_) :
               PricesOf(snapshot_3s_buffer_[i]) = PricesOf(AbsoluteUpTo(pa_month - 1)[i])

\* C23 witness: two files of two records each were decoded and appended; the
\* second file's first record went in as stored, not added to the record
\* before it
C23_Witness ==
  /\ pa_entry = "ParseAssetLifespan"
  /\ Len(month_files) = 2
  /\ pa_month = 3
  /\ pa_pc = "find"
  /\ CallsFor(1) = CallsOfDecodedMonth
  /\ CallsFor(2) = CallsOfDecodedMonth
  /\ Len(asset_records_buffer_) = 4
  /\ asset_records_buffer_[3] = StoredOf(2)[1]
  /\ asset_records_buffer_[2] # StoredOf(1)[2]
  /\ asset_records_buffer_[4] # StoredOf(2)[2]
  /\ asset_records_buffer_[4].time_s = StoredOf(2)[1].time_s + StoredOf(2)[2].time_s

\* the file of month folder m is missing, fails to decompress, or decompresses
\* to a length that is not a whole number of records
MonthFails(m) ==
  LET f == month_files[m]
      bytes == DecompressFile(OverloadOf(pa_entry), f.file, f.record_count).data
  IN  \/ ~f.found
      \/ bytes = << >>
      \/ Len(bytes) % sizeof_TickRecord # 0

\* the month folders FindAssetFile was called for, in order
MonthsVisited ==
  LET IsFind(entry) == entry[2] = "FindAssetFile"
      finds == SelectSeq(pa_log, IsFind)
  IN  [i \in 1..Len(finds) |-> finds[i][1]]

\* C27: when one month file of an asset is missing, fails to decompress or has
\* a malformed length, the snapshots, bars and records accumulated from the
\* earlier months are left unchanged by that month, and every remaining month
\* of the list is still processed, in order.
C27_FileFailureIsIsolated ==
  pa_entry \in {"ParseAsset", "ParseAssetLifespan"} =>
    /\ (pa_pc \in {"decompress", "parse", "reverse", "sink"} /\ MonthFails(pa_month))
         => /\ Tables = pa_tables_before
            /\ ENABLED PANext
    /\ (pa_pc = "find" /\ pa_month > 1 /\ MonthFails(pa_month - 1))
         => /\ Tables = pa_tables_before
            /\ ENABLED PANext
    /\ pa_pc # "thrown"
    /\ MonthsVisited = [i \in 1..Len(MonthsVisited) |-> i]
    /\ pa_pc = "done" => Len(MonthsVisited) = Len(month_files)

\* C27 witness: the first month's records are in the tables, the second month's
\* file has failed after it was found, the tables are as the first month left
\* them and the loop has moved on
C27_Witness ==
  /\ pa_entry = "ParseAsset"
  /\ Len(month_files) = 2
  /\ pa_month = 3
  /\ pa_pc = "find"
  /\ ~MonthFails(1)
  /\ MonthFails(2)
  /\ month_files[2].found
  /\ Len(snapshot_3s_buffer_) = 2
  /\ Len(bar_1m_buffer_) >= 1
  /\ Tables = pa_tables_before
  /\ MonthsVisited = <<1, 2>>

----------------------------------------------------------------------------
(* C28 *)

\* the asset tasks that have been launched and have not yet completed
LaunchedNotCompleted == { a \in stock_info_map : task[a] \in {"running", "thrown"} }

\* C28: once main has determined num_threads, it is the hardware concurrency,
\* or 4 when that is reported as 0, and in every interleaving of main's loop
\* with the tasks the number of tasks launched and not yet completed is at
\* most num_threads; so is the number of futures main holds when it tests
\* the loop condition.
C28_AtMostNumThreadsRunning ==
  drv_pc # "start" =>
    /\ num_threads = (IF hardware_concurrency = 0 THEN 4 ELSE hardware_concurrency)
    /\ Cardinality(LaunchedNotCompleted) <= num_threads
    /\ \A a \in LaunchedNotCompleted : \E i \in 1..Len(futures) : futures[i] = a
    /\ drv_pc = "loop" => Len(futures) <= num_threads

\* main waits for the front task while num_threads = 4 tasks (the fallback)
\* are all still running and an asset is still to be launched
C28_Witness ==
  /\ drv_pc = "wait_front"
  /\ hardware_concurrency = 0
  /\ num_threads = 4
  /\ Cardinality(LaunchedNotCompleted) = num_threads
  /\ stock_iter \in stock_info_map

----------------------------------------------------------------------------
(* C29 *)

\* the assets main has passed with stock_iter
Submitted == { a \in stock_info_map : a < stock_iter }

\* every asset main has passed was launched by exactly one std::async call and
\* no other asset was launched; a launched task is running or finished, and
\* while it runs main still holds its future; main reports completion only
\* after it has passed every asset and every launched task has finished
NothingDroppedNothingTwice ==
  /\ \A a \in stock_info_map :
       /\ launches[a] = (IF a \in Submitted THEN 1 ELSE 0)
       /\ (task[a] # "not_launched") = (a \in Submitted)
       /\ task[a] \in {"running", "thrown"} => \E i \in 1..Len(futures) : futures[i] = a
  /\ drv_pc \in {"final_wait", "completed"} => Submitted = stock_info_map
  /\ drv_pc = "completed" => \A a \in stock_info_map : task[a] = "finished"

\* C29: every asset of stock_info_map is launched exactly once, no launched
\* task is cancelled or dropped, main reports completion only after every
\* launched task has finished, and, the tasks all terminating, main
\* eventually reports completion.
C29_AllLaunchedOnceThenCompleted ==
  /\ [] NothingDroppedNothingTwice
  /\ <> (drv_pc = "completed")

\* main reports completion for five assets after it had to wait for tasks
C29_Witness ==
  /\ drv_pc = "completed"
  /\ Cardinality(stock_info_map) = MaxAssets
  /\ num_threads < Cardinality(stock_info_map)
  /\ Len(futures) < Cardinality(stock_info_map)
  /\ \A a \in stock_info_map : launches[a] = 1 /\ task[a] = "finished"

----------------------------------------------------------------------------
(* C30 *)

\* the assets whose task ended with ParseAssetLifespan's exception
FailedAssets == { a \in stock_info_map : outcome[a] = "failed" }

\* ParseAssetLifespan fails exactly for the assets whose output file cannot be
\* created; its exception reaches ProcessAsset, which reports the asset once
\* on std::cerr as it ends that task; no other asset is reported, and a
\* finished task of any other asset has gone through its months
FailureReportedAndConfined ==
  /\ \A a \in stock_info_map :
       /\ outcome[a] = "failed" => ~output_creatable[a]
       /\ task[a] = "thrown" => outcome[a] = "failed"
       /\ task[a] = "finished" =>
            outcome[a] = (IF output_creatable[a] THEN "processed" ELSE "failed")
       /\ Cardinality({ i \in 1..Len(drv_cerr) : drv_cerr[i] = a }) =
            (IF task[a] = "finished" /\ outcome[a] = "failed" THEN 1 ELSE 0)
  /\ \A i \in 1..Len(drv_cerr) : drv_cerr[i] \in FailedAssets

\* C30: an asset whose output file cannot be created fails in
\* ParseAssetLifespan before any month; the failure is reported by the
\* caller, ProcessAsset, and ends only that asset's task: eventually main
\* reports completion with every asset launched once and finished, the
\* assets whose output file can be created processed to the end, and the
\* others failed.
C30_AssetFailureSurfacedAndConfined ==
  /\ [] FailureReportedAndConfined
  /\ <> /\ drv_pc = "completed"
        /\ \A a \in stock_info_map :
             /\ launches[a] = 1
             /\ task[a] = "finished"
             /\ outcome[a] = (IF output_creatable[a] THEN "processed" ELSE "failed")

\* the first of five assets has failed and was reported while one thread
\* serves all assets, and the four launched after it were all processed
C30_Witness ==
  /\ drv_pc = "completed"
  /\ Cardinality(stock_info_map) = MaxAssets
  /\ num_threads = 1
  /\ FailedAssets = {1}
  /\ drv_cerr = <<1>>
  /\ \A a \in stock_info_map \ {1} : launches[a] = 1 /\ outcome[a] = "processed"

----------------------------------------------------------------------------
(* C31 *)

\* snapshot i of snapshot_3s_buffer_ points at a bar of the table, that bar
\* has the day, hour and minute of the record the snapshot was built from, and
\* the snapshot's seconds are the record's second within the minute
RefersToItsMinuteBar(i) ==
  LET snapshot_record == snapshot_3s_buffer_[i]
      source == ps_source[i]
      k == snapshot_record.index_1m + 1
  IN /\ k \in 1..Len(bar_1m_buffer_)
     /\ bar_1m_buffer_[k].day = source.day
     /\ bar_1m_buffer_[k].hour = source.time_s \div 3600
     /\ bar_1m_buffer_[k].minute = (source.time_s % 3600) \div 60
     /\ snapshot_record.seconds = source.time_s % 60

\* C31: every snapshot appended by ConvertToSnapshot3sAndBar1m carries an
\* index_1m that is a valid index into the bar table and refers to the bar
\* with the day, hour and minute of the snapshot's record, and its seconds
\* are the record's second within that minute, over several month files.
C31_SnapshotRefersToItsMinuteBar ==
  \A i \in 1..Len(snapshot_3s_buffer_) : RefersToItsMinuteBar(i)

----------------------------------------------------------------------------
(* C32 *)

\* entries of continuous_snapshots_ that are records, not synthetic snapshots
RealCount == Cardinality({ i \in 1..Len(is_gap) : ~is_gap[i] })

\* C32: for any input record, whatever the order of its timestamp relative to
\* the earlier records, ProcessSingleSnapshot does not abort; when it has
\* returned, the record is the last entry of continuous_snapshots_, entered
\* once as a real snapshot, last_snapshot_ is the record and
\* last_processed_time_ is the record's seconds_in_day.
C32_RecordBecomesBaseline ==
  /\ ta_pc # "aborted"
  /\ (ta_pc = "idle" /\ ta_calls > 0) =>
       /\ continuous_snapshots_ # << >>
       /\ continuous_snapshots_[Len(continuous_snapshots_)] = snapshot
       /\ ~is_gap[Len(is_gap)]
       /\ RealCount = ta_calls
       /\ last_snapshot_ = snapshot
       /\ last_processed_time_ = snapshot.seconds_in_day

----------------------------------------------------------------------------
(* C33 *)

\* what TechnicalAnalysis keeps or reports about anomalous timestamps:
\* ProcessSingleSnapshot writes has_previous_snapshot_, last_processed_time_,
\* last_snapshot_, gap_snapshot_, the bar under construction, the two tables
\* and the windows, and nothing else; the class has no member and no output
\* for anomalies (last_hour_ and new_session_start_ are never written)
AnomaliesReported == 0

\* the real entries of continuous_snapshots_ before entry i, nearest first
PreviousReal(i) == LastRealAt(i - 1)

\* entry i is a record whose timestamp does not advance on the record before
\* it although neither the time goes backward nor the day changes: there is
\* no gap to fill and no session boundary
AnomalousAt(i) ==
  /\ ~is_gap[i]
  /\ PreviousReal(i) > 0
  /\ continuous_snapshots_[i].day = continuous_snapshots_[PreviousReal(i)].day
  /\ continuous_snapshots_[i].seconds_in_day =
       continuous_snapshots_[PreviousReal(i)].seconds_in_day

\* C33: timestamps that are non-monotonic and are explained neither as a
\* normal gap nor as a session boundary are reported: the count of anomalies
\* the resampler keeps is the number of anomalous records it has processed.
C33_AnomaliesAreCounted ==
  AnomaliesReported =
    Cardinality({ i \in 1..Len(continuous_snapshots_) : AnomalousAt(i) })

----------------------------------------------------------------------------
(* C34 *)

\* the snapshot the next AnalyzeSnapshot call of ProcessSingleSnapshot is
\* made on: the next synthetic snapshot while the gap loop runs, the record
\* after it
NextAnalyzed ==
  IF GapLoopRuns THEN GetGapSnapshot(gap_time) ELSE snapshot

\* C34: in every reachable state of the feature engine, AnalyzeSnapshot reads
\* snapshot_vwaps_.back() only when that window is non-empty; in particular a
\* first snapshot with volume = 0 does not call back() on an empty window.
C34_BackOnlyOnNonEmptyWindow ==
  ta_pc = "gap_loop" => ~ReadsEmptyVwaps(NextAnalyzed)

----------------------------------------------------------------------------
(* C35 *)

\* back() of the empty bar table was updated: the program was stopped there,
\* or it went on and appended the record's snapshot with no bar in the table
UpdatedBackOfEmptyTable ==
  \/ ps_pc = "aborted"
  \/ snapshot_3s_buffer_ # << >> /\ bar_1m_buffer_ = << >>

\* the pass of the loop for the first record of binary_records leaves every
\* bar that is in the table at the call as it is
FirstRecordKeepsEarlierBars ==
  (ps_pc = "convert" /\ block_pos = 0 /\ block_pos' = 1) =>
    \A k \in 1..Len(bar_1m_buffer_) :
      /\ k <= Len(bar_1m_buffer_')
      /\ bar_1m_buffer_'[k] = bar_1m_buffer_[k]

\* C35: ConvertToSnapshot3sAndBar1m never updates bar_1m_buffer_.back() while
\* the bar table is empty, and the first record of a month file never changes
\* a bar created from an earlier month file, also when that record's time is
\* within 00:00:00-00:00:59, where its hour and minute equal the initial
\* last_hour = 0 and last_minute = 0.
C35_FirstRecordStartsItsOwnBar ==
  /\ [] ~UpdatedBackOfEmptyTable
  /\ [][FirstRecordKeepsEarlierBars]_vars

----------------------------------------------------------------------------
(* C36 *)

BarVolumes == [r \in 1..Len(minute_bars_) |-> minute_bars_[r].volume]
BarTurnovers == [r \in 1..Len(minute_bars_) |-> minute_bars_[r].turnover]

\* the entries of continuous_snapshots_ in the runs whose bars are finalized
FinalizedMembers ==
  { i \in 1..Len(continuous_snapshots_) : RunOf(i) <= Len(minute_bars_) }

\* C36: after any sequence of ProcessSingleSnapshot calls the volume of all
\* finalized bars plus the volume of the bar under construction is 100 times
\* the sum of the volumes of all snapshots in continuous_snapshots_, and the
\* bars' turnover is the sum of the snapshots' turnover; the bar under
\* construction is not in minute_bars_: the table holds the totals of the
\* earlier minutes only, and the snapshots of the newest minute are in
\* current_bar_ alone.
C36_BarsAccountForAllSnapshots ==
  LET all == 1..Len(continuous_snapshots_)
      open_volume == IF has_current_bar_ THEN current_bar_.volume ELSE 0
      open_turnover == IF has_current_bar_ THEN current_bar_.turnover ELSE 0
  IN /\ SumOver(DOMAIN BarVolumes, BarVolumes) + open_volume
          = 100 * SumOver(all, SnapshotVolumes)
     /\ SumOver(DOMAIN BarTurnovers, BarTurnovers) + open_turnover
          = SumOver(all, SnapshotTurnovers)
     /\ has_current_bar_ =>
          /\ RunOf(Len(continuous_snapshots_)) = Len(minute_bars_) + 1
          /\ SumOver(DOMAIN BarVolumes, BarVolumes)
               = 100 * SumOver(FinalizedMembers, SnapshotVolumes)
          /\ SumOver(DOMAIN BarTurnovers, BarTurnovers)
               = SumOver(FinalizedMembers, SnapshotTurnovers)
          /\ current_bar_.volume
               = 100 * SumOver(all \ FinalizedMembers, SnapshotVolumes)

\* three calls have returned; two bars are finalized and a third is under
\* construction, each with volume of its own, real and synthetic snapshots
\* among them
C36_Witness ==
  /\ ta_pc = "idle"
  /\ ta_calls = MaxCalls
  /\ Len(minute_bars_) >= 2
  /\ has_current_bar_
  /\ current_bar_.volume > 0
  /\ \A r \in 1..2 : minute_bars_[r].volume > 0
  /\ \E i \in 1..Len(is_gap) : is_gap[i]
  /\ Len(continuous_snapshots_) > Len(minute_bars_) + 1

----------------------------------------------------------------------------
(* C37 *)

\* C37: every bar finalized by TechnicalAnalysis aggregates snapshots of a
\* single trading day, and no snapshot whose day differs from the day of the
\* bar under construction is accumulated into that bar, also when it has the
\* bar's (hour, minute): the snapshots of a bar's run all carry the bar's day.
C37_BarIsOfOneDay ==
  /\ \A r \in 1..Len(minute_bars_) :
       \A i \in RunMembers(r) : continuous_snapshots_[i].day = minute_bars_[r].day
  /\ has_current_bar_ =>
       \A i \in RunMembers(Len(minute_bars_) + 1) :
         continuous_snapshots_[i].day = current_bar_.day

----------------------------------------------------------------------------
(* C38 *)

\* the futures main tracks whose task is ready
CompletedTracked == { i \in 1..Len(futures) : task[futures[i]] = "finished" }

\* what a step of main's submission loop does, by the place it leaves
SubmissionStep ==
  /\ (drv_pc = "loop" /\ drv_pc' # "loop" /\ stock_iter \in stock_info_map) =>
       /\ futures' = futures
       /\ drv_pc' = (IF Len(futures) < num_threads THEN "launch"
                     ELSE "erase_completed")
  /\ (drv_pc = "erase_completed" /\ drv_pc' # "erase_completed") =>
       /\ Len(futures) = num_threads
       /\ futures' = NotCompleted(futures)
       /\ \A i \in 1..Len(futures') : task[futures'[i]] # "finished"
       /\ drv_pc' = (IF CompletedTracked = {} THEN "wait_front" ELSE "launch")
  /\ (drv_pc = "wait_front" /\ drv_pc' # "wait_front") =>
       /\ task[Head(futures)] = "finished"
       /\ futures' = Tail(futures)
       /\ drv_pc' = "launch"
  /\ (drv_pc = "launch" /\ drv_pc' # "launch") =>
       /\ Len(futures) < num_threads
       /\ Len(futures') = Len(futures) + 1

\* C38: the submission loop blocks only at capacity: with fewer than
\* num_threads tasks tracked it goes on to launch the next asset without
\* waiting; with num_threads tasks tracked it first removes every completed
\* task, and it waits on a task (the front one) only if none was completed,
\* so that it waits only while num_threads tracked tasks are left.
C38_BlocksOnlyAtCapacity ==
  /\ [] (drv_pc = "wait_front" =>
           Len(futures) = num_threads /\ stock_iter \in stock_info_map)
  /\ [][SubmissionStep]_vars

\* with four threads and four tasks tracked, two of them had completed when
\* main came to the fifth asset: both were removed and main launches at once
C38_Witness ==
  /\ num_threads = 4
  /\ stock_iter = 5
  /\ drv_pc = "launch"
  /\ Len(futures) = 2
  /\ Cardinality({ a \in stock_info_map : task[a] = "finished" }) >= 2

----------------------------------------------------------------------------
(* C39 *)

\* the points last + 3, last + 6, ... of the 3-second grid that lie strictly
\* between last and t
GridPointsBetween(last_time, t) ==
  { g \in (last_time + 1)..(t - 1) : (g - last_time) % snapshot_interval = 0 }

\* while the call is in its loop the counter has not wrapped, stands on the
\* grid point after those passed, and every pass made was for a grid point
\* below the record's time
GapLoopCounts ==
  /\ ~gl_wrapped
  /\ (gl_pc = "loop" /\ gl_has_previous) =>
       /\ gl_gap_time = gl_last_time + snapshot_interval * (gl_passes + 1)
       /\ gl_passes > 0 =>
            gl_last_time + snapshot_interval * gl_passes < gl_seconds_in_day
  /\ (gl_pc = "loop" /\ ~gl_has_previous) => gl_passes = 0

\* the loop is left after as many passes as there are grid points strictly
\* between last_processed_time_ and the record's time
GapLoopLeftAfterGridPoints ==
  (gl_pc = "loop" /\ gl_pc' = "returned") =>
    gl_passes = (IF gl_has_previous
                   THEN Cardinality(GridPointsBetween(gl_last_time, gl_seconds_in_day))
                   ELSE 0)

\* C39: ProcessSingleSnapshot terminates for every record with seconds_in_day
\* in 0..86399 and every reachable last_processed_time_: the gap loop makes a
\* finite number of passes, as many as there are 3-second grid points
\* strictly between last_processed_time_ and the record's time, and the
\* 32-bit counter gap_time never wraps around.
C39_GapLoopTerminates ==
  /\ [] GapLoopCounts
  /\ [][GapLoopLeftAfterGridPoints]_vars
  /\ (gl_pc = "loop") ~> (gl_pc = "returned")

\* the call on the last second of a day after a record at second 0 has
\* returned after 28799 passes, its counter at 86400
C39_Witness ==
  /\ gl_pc = "returned"
  /\ gl_last_time = 86399
  /\ gl_passes = 28799
  /\ gl_gap_time = 86400

\* C40: when two threads call pin_to_cores (or pin_thread_cores) at the same
\* time with different valid core lists, each call that has returned has
\* applied exactly the core set it was given, never a set that mixes in or is
\* replaced by the other caller's cores.
C40_EachCallAppliesItsOwnCores ==
  (/\ \A th \in AffinityCallers : validate_cores(af_cores[th])
   /\ CoreSet(af_cores[1]) # CoreSet(af_cores[2]))
    => \A th \in AffinityCallers :
         af_pc[th] = "returned"
           => /\ af_return[th] = TRUE
              /\ af_affinity[th] = CoreSet(af_cores[th])

====
